---- MODULE Spec2Model ----
(***************************************************************************)
(* A model of batgw, the battery gateway: the pack-state store and the     *)
(* safety supervisor of batgw.c, the BYD battery driver's liveness         *)
(* (battery/b_byd.c) and the BYD CAN inverter driver                       *)
(* (inverter/i_byd_can.c).                                                 *)
(*                                                                         *)
(* The process is single threaded: every libevent callback runs to         *)
(* completion, so each callback is one action.  Timers are modelled by the *)
(* time they have left, NotPending when not registered.                    *)
(*                                                                         *)
(* The specifications share the state:                                     *)
(*   SpecSafety  the supervisor's functions over pack states;              *)
(*   Spec        both drivers, every inverter frame, a pack that only      *)
(*               shows it is alive; a pending timer may fire at any time;  *)
(*   SpecGate    both drivers, every battery frame, an inverter that only  *)
(*               sends 0x151 frames;                                       *)
(*   SpecTimed   the battery driver against a clock in steps of 1 s.       *)
(*   SpecContactor  the inverter driver's reading of the inverter voltage; *)
(*   SpecHello   the inverter driver's answer to the inverter's hello;     *)
(*   SpecStr     byd_can_i_send_str over strings;                          *)
(*   SpecKv      batgw_kv_update on one key against a clock;               *)
(*   SpecSweep   the teleperiod sweep over every key of both drivers;      *)
(*   SpecFmt     batgw_kv_publish over values and precisions;              *)
(*   SpecAcc     the pack-state setters followed by their accessors;       *)
(*   SpecAvg     batgw_i_get_avg_temp_dc over pack states;                 *)
(*   SpecMqtt    the broker session: resolver, sockets, client library;    *)
(*   SpecMqttLive  SpecMqtt with the reconnect timer firing when armed;    *)
(*   SpecPoll    the battery driver's poll timer;                          *)
(*   SpecNonce   the battery driver's 50 ms message and its change timer;  *)
(*   SpecEmit    the battery driver's 50 ms and 100 ms messages;           *)
(*   SpecWire    the inverter driver's 2 s message over power limits;      *)
(*   SpecIdx     the tables the BYD and MG4 battery drivers index.         *)
(***************************************************************************)
EXTENDS Integers, Sequences, FiniteSets, TLC

VARIABLES
    v_safe,             \* batgw.c: static unsigned int v_safe
    v_unsafe,           \* batgw.c: static unsigned int v_unsafe
    bconf,              \* bg->bg_conf->battery (immutable after startup)
    bs,                 \* bg->bg_battery_state
    is,                 \* bg->bg_inverter_state
    bg_unsafe_reason,   \* bg->bg_unsafe_reason
    isc,                \* struct byd_can_i_softc (inverter driver)
    bsc,                \* struct byd_softc (battery driver)
    tmo,                \* the evtimers: seconds left, or NotPending
    now,                \* the monotonic clock, in seconds
    mqtt_running,       \* batgw_mqtt_running(bg): a broker session is open
    bgm,                \* struct batgw_mqtt: the broker session and its events
    sent,               \* frames handed to send() by the last callback
    logged,             \* warnings written by the last callback
    pub,                \* messages handed to mqtt_publish by the last callback
    quiet,              \* seconds since the battery driver last read a recognised frame
    ret,                \* what the last direct call of a supervisor function returned
    aborted             \* abort() was called: the process is gone

vars == <<v_safe, v_unsafe, bconf, bs, is, bg_unsafe_reason, isc, bsc, tmo, now,
          mqtt_running, bgm, sent, logged, pub, quiet, ret, aborted>>

(***************************************************************************)
(* Bounds of the model.                                                    *)
(***************************************************************************)

\* arc4random() draws from 0 .. 2^32-1; the model draws from 0 .. MaxToken.
MaxToken == 2

Tokens == 0 .. MaxToken

(***************************************************************************)
(* Program constants.                                                      *)
(***************************************************************************)

BYD_MIN_CELL_VOLTAGE_MV == 2800
BYD_MAX_CELL_VOLTAGE_MV == 3800
BYD_DEV_CELL_VOLTAGE_MV == 150
BYD_HVS_VOLTAGE_OFFSET_DV == 20

\* The bits of bs_valid, by name.
BATGW_B_VALID_SOC == "SOC"
BATGW_B_VALID_VOLTAGE == "VOLTAGE"
BATGW_B_VALID_CURRENT == "CURRENT"
BATGW_B_VALID_MIN_TEMP == "MIN_TEMP"
BATGW_B_VALID_MAX_TEMP == "MAX_TEMP"
BATGW_B_VALID_AVG_TEMP == "AVG_TEMP"

SET(v, m) == v \cup {m}
ISSET(v, m) == m \in v

Min(a, b) == IF a < b THEN a ELSE b

(***************************************************************************)
(* Pack state store (batgw.c).                                             *)
(***************************************************************************)

\* static struct batgw _bg: every field of the pack state starts as zero.
batgw_b_state0 ==
    [ bs_running |-> 0,
      bs_rated_capacity_ah |-> 0, bs_rated_voltage_dv |-> 0,
      bs_rated_capacity_wh |-> 0,
      bs_min_voltage_dv |-> 0, bs_max_voltage_dv |-> 0,
      bs_max_charge_w |-> 0, bs_max_discharge_w |-> 0,
      bs_min_cell_voltage_mv |-> 0, bs_max_cell_voltage_mv |-> 0,
      bs_valid |-> {},
      bs_soc_cpct |-> 0, bs_voltage_dv |-> 0, bs_current_da |-> 0,
      bs_min_temp_dc |-> 0, bs_max_temp_dc |-> 0, bs_avg_temp_dc |-> 0 ]

batgw_b_set_running(s) == [s EXCEPT !.bs_running = 1]
batgw_b_set_stopped(s) == [s EXCEPT !.bs_running = 0]
batgw_b_get_running(s) == s.bs_running

batgw_b_set_rated_capacity_ah(s, ah) == [s EXCEPT !.bs_rated_capacity_ah = ah]
batgw_b_set_rated_voltage_dv(s, dv) == [s EXCEPT !.bs_rated_voltage_dv = dv]

batgw_b_set_soc_c_pct(s, soc) ==
    [s EXCEPT !.bs_valid = SET(@, BATGW_B_VALID_SOC), !.bs_soc_cpct = soc]

batgw_b_set_min_voltage_dv(s, dv) == [s EXCEPT !.bs_min_voltage_dv = dv]

\* As in the source, this writes the *minimum* field.
batgw_b_set_max_voltage_dv(s, dv) == [s EXCEPT !.bs_min_voltage_dv = dv]

batgw_b_set_voltage_dv(s, dv) ==
    [s EXCEPT !.bs_valid = SET(@, BATGW_B_VALID_VOLTAGE), !.bs_voltage_dv = dv]

\* The setter without the validity bit.
batgw_b_set_current_da_novalid(s, da) == [s EXCEPT !.bs_current_da = da]

batgw_b_set_current_da(s, da) ==
    [s EXCEPT !.bs_valid = SET(@, BATGW_B_VALID_CURRENT), !.bs_current_da = da]

batgw_b_set_min_temp_dc(s, temp) ==
    [s EXCEPT !.bs_valid = SET(@, BATGW_B_VALID_MIN_TEMP), !.bs_min_temp_dc = temp]

batgw_b_set_max_temp_dc(s, temp) ==
    [s EXCEPT !.bs_valid = SET(@, BATGW_B_VALID_MAX_TEMP), !.bs_max_temp_dc = temp]

batgw_b_set_avg_temp_dc(s, temp) ==
    [s EXCEPT !.bs_valid = SET(@, BATGW_B_VALID_AVG_TEMP), !.bs_avg_temp_dc = temp]

batgw_b_set_charge_w(s, w) == [s EXCEPT !.bs_max_charge_w = w]
batgw_b_set_discharge_w(s, w) == [s EXCEPT !.bs_max_discharge_w = w]

batgw_b_set_min_cell_voltage_mv(s, mv) == [s EXCEPT !.bs_min_cell_voltage_mv = mv]
batgw_b_set_max_cell_voltage_mv(s, mv) == [s EXCEPT !.bs_max_cell_voltage_mv = mv]

\* The accessors return [rv |-> 0 or -1, v |-> the value stored through the
\* pointer]; with rv = -1 nothing is stored and v is meaningless.
Present(x) == [rv |-> 0, v |-> x]
Absent == [rv |-> -1, v |-> 0]

batgw_i_get_min_voltage_dv(s) ==
    IF s.bs_min_voltage_dv # 0 THEN Present(s.bs_min_voltage_dv) ELSE Absent

\* As in the source, this reads the *minimum* field.
batgw_i_get_max_voltage_dv(s) ==
    IF s.bs_min_voltage_dv # 0 THEN Present(s.bs_min_voltage_dv) ELSE Absent

batgw_i_get_voltage_dv(s) ==
    IF ISSET(s.bs_valid, BATGW_B_VALID_VOLTAGE) THEN Present(s.bs_voltage_dv) ELSE Absent

batgw_i_get_rated_capacity_wh(s) ==
    IF s.bs_rated_capacity_wh # 0 THEN Present(s.bs_rated_capacity_wh)
    ELSE IF s.bs_rated_capacity_ah * s.bs_rated_voltage_dv # 0
         THEN Present((s.bs_rated_capacity_ah * s.bs_rated_voltage_dv) \div 10)
         ELSE Absent

(***************************************************************************)
(* Safety supervisor (batgw.c).                                            *)
(***************************************************************************)

NULL == "NULL"
SAFE == "safe"

\* Mutant of batgw_safety_reason: the temperature spread is compared with <=.
batgw_safety_reason_spread_le(s, conf) ==
    IF s.bs_running = 0 THEN "battery is not running"
    ELSE IF ~ISSET(s.bs_valid, BATGW_B_VALID_MIN_TEMP)
        THEN "minimum battery temperature has not been reported"
    ELSE IF ~ISSET(s.bs_valid, BATGW_B_VALID_MAX_TEMP)
        THEN "maximum battery temperature has not been reported"
    ELSE IF ~(s.bs_min_temp_dc >= -250) THEN "battery is too cold"
    ELSE IF ~(s.bs_max_temp_dc <= 500) THEN "battery is too hot"
    ELSE IF ~(s.bs_min_temp_dc <= s.bs_max_temp_dc)
        THEN "battery min temp is higher than max temp"
    ELSE IF ~(s.bs_max_temp_dc - s.bs_min_temp_dc <= 150)
        THEN "battery temperature difference is too high"
    ELSE IF ~(s.bs_min_cell_voltage_mv # 0)
        THEN "minimum cell voltage has not been reported"
    ELSE IF ~(s.bs_max_cell_voltage_mv # 0)
        THEN "maximum cell voltage has not been reported"
    ELSE IF ~(s.bs_min_cell_voltage_mv <= s.bs_max_cell_voltage_mv)
        THEN "min cell voltage is higher than max cell voltage"
    ELSE IF ~(s.bs_max_cell_voltage_mv - s.bs_min_cell_voltage_mv
                < conf.dev_cell_voltage_mv)
        THEN "battery cell voltage difference is too high"
    ELSE "safe"

\* The chain of checks of batgw_i_get_safety: the reason of the first check
\* that fails, or SAFE when the code reaches "return (v_safe)".
batgw_safety_reason(s, conf) ==
    IF s.bs_running = 0 THEN "battery is not running"
    ELSE IF ~ISSET(s.bs_valid, BATGW_B_VALID_MIN_TEMP)
        THEN "minimum battery temperature has not been reported"
    ELSE IF ~ISSET(s.bs_valid, BATGW_B_VALID_MAX_TEMP)
        THEN "maximum battery temperature has not been reported"
    ELSE IF ~(s.bs_min_temp_dc >= -250) THEN "battery is too cold"
    ELSE IF ~(s.bs_max_temp_dc <= 500) THEN "battery is too hot"
    ELSE IF ~(s.bs_min_temp_dc <= s.bs_max_temp_dc)
        THEN "battery min temp is higher than max temp"
    ELSE IF ~(s.bs_max_temp_dc - s.bs_min_temp_dc < 150)
        THEN "battery temperature difference is too high"
    ELSE IF ~(s.bs_min_cell_voltage_mv # 0)
        THEN "minimum cell voltage has not been reported"
    ELSE IF ~(s.bs_max_cell_voltage_mv # 0)
        THEN "maximum cell voltage has not been reported"
    ELSE IF ~(s.bs_min_cell_voltage_mv <= s.bs_max_cell_voltage_mv)
        THEN "min cell voltage is higher than max cell voltage"
    \* unsigned subtraction; min <= max here, so it does not wrap
    ELSE IF ~(s.bs_max_cell_voltage_mv - s.bs_min_cell_voltage_mv
                < conf.dev_cell_voltage_mv)
        THEN "battery cell voltage difference is too high"
    ELSE SAFE

\* batgw_i_get_safety: the token returned, the new bg_unsafe_reason and the
\* warning written (<<>> when none).
\* batgw_i_get_safety forgetting the logged reason at a safe verdict.
batgw_i_get_safety_forget(s, conf, reason0, vs, vu) ==
    LET reason == batgw_safety_reason(s, conf) IN
    IF reason = SAFE
    THEN [token |-> vs, reason |-> NULL, log |-> <<>>]
    ELSE [token |-> vu,
          reason |-> reason,
          log |-> IF reason0 # reason THEN <<reason>> ELSE <<>>]

\* batgw_i_get_safety(bg): the token returned, bg->bg_unsafe_reason as it is
\* left, and the warning written.
batgw_i_get_safety(s, conf, reason0, vs, vu) ==
    LET reason == batgw_safety_reason(s, conf) IN
    IF reason = SAFE
    THEN [token |-> vs, reason |-> reason0, log |-> <<>>]
    ELSE [token |-> vu,
          reason |-> reason,
          log |-> IF reason0 # reason THEN <<reason>> ELSE <<>>]

\* Mutant of batgw_i_issafe: every token but the safe one is taken as unsafe.
batgw_i_issafe_noabort(safety, vs, vu) ==
    IF safety = vs THEN [abort |-> FALSE, rv |-> 1] ELSE [abort |-> FALSE, rv |-> 0]

\* batgw_i_issafe: [abort |-> TRUE] stands for abort().
batgw_i_issafe(safety, vs, vu) ==
    IF safety = vs THEN [abort |-> FALSE, rv |-> 1]
    ELSE IF safety = vu THEN [abort |-> FALSE, rv |-> 0]
    ELSE [abort |-> TRUE, rv |-> 0]

\* Mutant of batgw_get_safety_limited_da: the configured limit is not applied.
batgw_get_safety_limited_da_nolimit(s, w, wlimit) ==
    IF s.bs_voltage_dv = 0 THEN 0 ELSE (w * 100) \div s.bs_voltage_dv

\* w and wlimit are at most 65535 * 100 in every state the drivers produce, so
\* the unsigned product w * 100 stays below 2^32.
batgw_get_safety_limited_da(s, w, wlimit) ==
    IF s.bs_voltage_dv = 0 THEN 0
    ELSE (Min(w, wlimit) * 100) \div s.bs_voltage_dv

\* Mutant of batgw_i_get_charge_da: the cell-voltage gate is missing.
batgw_i_get_charge_da_nogate(s, conf, safety, vs, vu) ==
    LET safe == batgw_i_issafe(safety, vs, vu) IN
    IF safe.abort THEN [abort |-> TRUE, rv |-> 0]
    ELSE IF safe.rv = 0 THEN [abort |-> FALSE, rv |-> 0]
    ELSE [abort |-> FALSE,
          rv |-> batgw_get_safety_limited_da(s, s.bs_max_charge_w, conf.charge_w)]

batgw_i_get_charge_da(s, conf, safety, vs, vu) ==
    LET safe == batgw_i_issafe(safety, vs, vu) IN
    IF safe.abort THEN [abort |-> TRUE, rv |-> 0]
    ELSE IF safe.rv = 0 THEN [abort |-> FALSE, rv |-> 0]
    ELSE IF s.bs_max_cell_voltage_mv > conf.max_cell_voltage_mv
        THEN [abort |-> FALSE, rv |-> 0]
    ELSE [abort |-> FALSE,
          rv |-> batgw_get_safety_limited_da(s, s.bs_max_charge_w, conf.charge_w)]

\* Mutant of batgw_i_get_discharge_da: the verdict is validated but does not
\* gate the current.
batgw_i_get_discharge_da_ungated(s, conf, safety, vs, vu) ==
    LET safe == batgw_i_issafe(safety, vs, vu) IN
    IF safe.abort THEN [abort |-> TRUE, rv |-> 0]
    ELSE IF s.bs_min_cell_voltage_mv < conf.min_cell_voltage_mv
        THEN [abort |-> FALSE, rv |-> 0]
    ELSE [abort |-> FALSE,
          rv |-> batgw_get_safety_limited_da(s, s.bs_max_discharge_w, conf.discharge_w)]

batgw_i_get_discharge_da(s, conf, safety, vs, vu) ==
    LET safe == batgw_i_issafe(safety, vs, vu) IN
    IF safe.abort THEN [abort |-> TRUE, rv |-> 0]
    ELSE IF safe.rv = 0 THEN [abort |-> FALSE, rv |-> 0]
    ELSE IF s.bs_min_cell_voltage_mv < conf.min_cell_voltage_mv
        THEN [abort |-> FALSE, rv |-> 0]
    ELSE [abort |-> FALSE,
          rv |-> batgw_get_safety_limited_da(s, s.bs_max_discharge_w, conf.discharge_w)]

(***************************************************************************)
(* Startup (main, batgw.c) and configuration.                              *)
(***************************************************************************)

\* The battery configuration after byd_b_config; charge_w and discharge_w are
\* the configured power limits batgw_i_get_*_da read (one configuration here).
batgw_b_config ==
    [ rated_capacity_ah |-> 150, rated_voltage_dv |-> 4032, ncells |-> 126,
      min_cell_voltage_mv |-> BYD_MIN_CELL_VOLTAGE_MV,
      max_cell_voltage_mv |-> BYD_MAX_CELL_VOLTAGE_MV,
      dev_cell_voltage_mv |-> BYD_DEV_CELL_VOLTAGE_MV,
      charge_w |-> 4000, discharge_w |-> 3500 ]

(***************************************************************************)
(* CAN frames and the byte-order helpers (batgw.c).                        *)
(***************************************************************************)

\* struct can_frame: data is the eight payload bytes, data[1] is C's data[0].
Frame(id, bytes) == [can_id |-> id, len |-> 8, data |-> bytes]

Zeros == <<0, 0, 0, 0, 0, 0, 0, 0>>

\* frame->data[o] in C's indexing.
Byte(frame, o) == frame.data[o + 1]

can_betoh16(frame, o) == Byte(frame, o) * 256 + Byte(frame, o + 1)

\* Exact for data[o] < 128, which is all the model feeds it.
can_betoh32(frame, o) ==
    Byte(frame, o) * 16777216 + Byte(frame, o + 1) * 65536
    + Byte(frame, o + 2) * 256 + Byte(frame, o + 3)

can_letoh16(frame, o) == Byte(frame, o) + Byte(frame, o + 1) * 256

\* The argument is converted to uint16_t, each byte to uint8_t.
can_htobe16(frame, o, h16) ==
    [frame EXCEPT !.data[o + 1] = ((h16 % 65536) \div 256) % 256,
                  !.data[o + 2] = (h16 % 65536) % 256]

can_htole16(frame, o, h16) ==
    [frame EXCEPT !.data[o + 1] = (h16 % 65536) % 256,
                  !.data[o + 2] = ((h16 % 65536) \div 256) % 256]

bydtodegc(frame, o) == Byte(frame, o) - 40

(***************************************************************************)
(* Key/value telemetry (batgw.c).                                          *)
(***************************************************************************)

\* limits.h INT_MIN, the value of a key that was never updated.
INT_MIN == -2147483647 - 1

\* enum batgw_kv_type and batgw_kv_type_names.
KV_T ==
    <<"KV_T_TEMP", "KV_T_VOLTAGE", "KV_T_CURRENT", "KV_T_POWER", "KV_T_AMPHOUR",
      "KV_T_WATTHOUR", "KV_T_ENERGY", "KV_T_PERCENT", "KV_T_COUNT", "KV_T_RAW">>

batgw_kv_type_names ==
    [t \in {KV_T[k] : k \in 1 .. Len(KV_T)} |->
        CASE t = "KV_T_TEMP" -> "temperature"
          [] t = "KV_T_VOLTAGE" -> "voltage"
          [] t = "KV_T_CURRENT" -> "current"
          [] t = "KV_T_POWER" -> "power"
          [] t = "KV_T_AMPHOUR" -> "amphour"
          [] t = "KV_T_WATTHOUR" -> "watthour"
          [] t = "KV_T_ENERGY" -> "energy"
          [] t = "KV_T_PERCENT" -> "percent"
          [] t = "KV_T_COUNT" -> "count"
          [] t = "KV_T_RAW" -> "raw"]

\* A struct batgw_kv_tpl.  A NULL key is the empty string: batgw_kv_init
\* leaves kv_key zeroed for it.
Tpl(key, type, precision) == [kv_key |-> key, kv_type |-> type, kv_precision |-> precision]

\* A template no initialiser names: all zero.
TplZero == Tpl("", KV_T[1], 0)

\* batgw_kv_init: a struct batgw_kv that was never updated.
batgw_kv_init(key, type, precision) ==
    [kv_key |-> key, kv_v |-> INT_MIN, kv_updated |-> 0,
     kv_type |-> type, kv_precision |-> precision]

batgw_kv_init_tpl(tpl) == batgw_kv_init(tpl.kv_key, tpl.kv_type, tpl.kv_precision)

batgw_kv_get(kv) == kv.kv_v

\* Mutant of batgw_kv_update: no comparison with the stored value.
batgw_kv_update_nodedup(kv, v, t) ==
    IF t - kv.kv_updated < 10
        THEN [kv |-> [kv EXCEPT !.kv_v = v], publish |-> FALSE]
    ELSE [kv |-> [kv EXCEPT !.kv_v = v, !.kv_updated = t], publish |-> TRUE]

\* Mutant of batgw_kv_update: the throttle still holds at 10 s.
batgw_kv_update_le(kv, v, t) ==
    IF kv.kv_v = v THEN [kv |-> kv, publish |-> FALSE]
    ELSE IF t - kv.kv_updated <= 10
        THEN [kv |-> [kv EXCEPT !.kv_v = v], publish |-> FALSE]
    ELSE [kv |-> [kv EXCEPT !.kv_v = v, !.kv_updated = t], publish |-> TRUE]

\* batgw_kv_update on one slot at clock reading t: the slot afterwards and
\* whether batgw_kv_publish is called.  event_gettime_monotonic succeeds.
batgw_kv_update(kv, v, t) ==
    IF kv.kv_v = v THEN [kv |-> kv, publish |-> FALSE]
    ELSE IF t - kv.kv_updated < 10
        THEN [kv |-> [kv EXCEPT !.kv_v = v], publish |-> FALSE]
    ELSE [kv |-> [kv EXCEPT !.kv_v = v, !.kv_updated = t], publish |-> TRUE]

\* mqttconf->topic when the configuration names none (BATGW_MQTT_TOPIC).
BATGW_MQTT_TOPIC == "battery-gateway"

\* The topic batgw_kv_publish builds: the configured topic, the scope, the
\* key unless it is empty, and the name of the type.
batgw_kv_topic(scope, kv) ==
    BATGW_MQTT_TOPIC \o "/" \o scope
        \o (IF kv.kv_key # "" THEN "/" \o kv.kv_key ELSE "")
        \o "/" \o batgw_kv_type_names[kv.kv_type]

\* The characters printf writes, as a sequence of one-character strings.
Digit(d) == <<"0", "1", "2", "3", "4", "5", "6", "7", "8", "9">>[d + 1]

RECURSIVE fmt_u(_)
\* "%u"
fmt_u(u) == IF u < 10 THEN <<Digit(u)>> ELSE fmt_u(u \div 10) \o <<Digit(u % 10)>>

\* "%0*u": at least width characters, zeros in front.
fmt_0u(width, u) ==
    LET d == fmt_u(u) IN [k \in 1 .. (width - Len(d)) |-> "0"] \o d

\* "%d".  -INT_MIN is not an int: its digits are written out.
fmt_d(v) ==
    IF v = INT_MIN THEN <<"-", "2", "1", "4", "7", "4", "8", "3", "6", "4", "8">>
    ELSE IF v < 0 THEN <<"-">> \o fmt_u(-v)
    ELSE fmt_u(v)

divs == <<1, 10, 100, 1000, 10000>>

\* The payload with "%u" for the fraction, without the zero padding.
batgw_kv_payload_nopad(kv) ==
    LET div == divs[kv.kv_precision + 1]
        mag == IF kv.kv_v < 0 THEN -kv.kv_v ELSE kv.kv_v
        neg == IF kv.kv_v < 0 THEN <<"-">> ELSE <<>>
    IN  IF kv.kv_precision = 0 THEN fmt_d(kv.kv_v)
        ELSE neg \o fmt_u(mag \div div) \o <<".">> \o fmt_u(mag % div)

\* The payload batgw_kv_publish builds from kv_v and kv_precision.  With a
\* precision the magnitude is split as an unsigned int; for INT_MIN the
\* magnitude 2^31 is split from its half.
batgw_kv_payload(kv) ==
    LET div == divs[kv.kv_precision + 1]
        half == 1073741824
        q == IF kv.kv_v = INT_MIN THEN 2 * (half \div div) + (2 * (half % div)) \div div
             ELSE IF kv.kv_v < 0 THEN (-kv.kv_v) \div div ELSE kv.kv_v \div div
        r == IF kv.kv_v = INT_MIN THEN (2 * (half % div)) % div
             ELSE IF kv.kv_v < 0 THEN (-kv.kv_v) % div ELSE kv.kv_v % div
        neg == IF kv.kv_v < 0 THEN <<"-">> ELSE <<>>
    IN  IF kv.kv_precision = 0 THEN fmt_d(kv.kv_v)
        ELSE neg \o fmt_u(q) \o <<".">> \o fmt_0u(kv.kv_precision, r)

\* struct batgw_mqtt without its running flag.  A timer is TRUE while it is
\* pending.  An event of the session is "none" before event_new and after
\* event_free, "new" when not registered, "added" when registered; ev_wr is
\* "connecting" while it waits for a connect() in progress.  resn counts the
\* resolved addresses not tried yet.  publish_rv is what mqtt_publish returns
\* on conn: the client library's answer, 0 or -1.
batgw_mqtt0 ==
    [ev_to_reconnect |-> FALSE, ev_to_teleperiod |-> FALSE, req |-> FALSE,
     resn |-> 0, conn |-> FALSE, ev_rd |-> "none", ev_wr |-> "none",
     ev_to |-> "none", publish_rv |-> 0]

\* A message as handed to mqtt_publish, with what mqtt_publish returned.
mqtt_publish(scope, key, v, topic, payload, retain) ==
    [scope |-> scope, key |-> key, v |-> v, topic |-> topic, payload |-> payload,
     retain |-> retain, rv |-> bgm.publish_rv]

(***************************************************************************)
(* The broker session of batgw.c.  Its functions are operators on m, the   *)
(* fields of struct batgw_mqtt with the running flag and exit, which is    *)
(* TRUE once err() or lerr() has ended the process.  What the resolver,    *)
(* the sockets and the MQTT client library answer is an argument.          *)
(***************************************************************************)
CurMqtt ==
    [f \in DOMAIN bgm \cup {"running", "exit"} |->
        IF f = "running" THEN mqtt_running ELSE IF f = "exit" THEN FALSE ELSE bgm[f]]

\* batgw_mqtt_reconnect: batgw_evtimer_add(ev_to_reconnect, reconnect_tmo)
batgw_mqtt_reconnect(m) == [m EXCEPT !.ev_to_reconnect = TRUE]

\* Mutant of batgw_mqtt_disconnect: the teleperiod timer stays registered.
batgw_mqtt_disconnect_keep(m) ==
    batgw_mqtt_reconnect([m EXCEPT !.running = 0, !.ev_to = "none", !.ev_wr = "none",
                                   !.ev_rd = "none", !.conn = FALSE])

batgw_mqtt_disconnect(m) ==
    batgw_mqtt_reconnect([m EXCEPT !.running = 0, !.ev_to_teleperiod = FALSE,
                                   !.ev_to = "none", !.ev_wr = "none",
                                   !.ev_rd = "none", !.conn = FALSE])

\* The places batgw_mqtt_connected can fail at, "" for none.
ConnectedFailures == {"", "mqtt_conn_create", "ev_rd", "ev_wr", "ev_to", "mqtt_connect"}

\* batgw_mqtt_connected: every failure frees what was made and goes to
\* reconnect.  mqtt_connect has the library ask for output (want_output
\* adds ev_wr) to send its CONNECT.
batgw_mqtt_connected(m, fail) ==
    IF fail = ""
    THEN [m EXCEPT !.resn = 0, !.conn = TRUE, !.ev_rd = "added", !.ev_wr = "added",
                   !.ev_to = "new"]
    ELSE batgw_mqtt_reconnect([m EXCEPT !.resn = 0, !.conn = FALSE, !.ev_rd = "none",
                                        !.ev_wr = "none", !.ev_to = "none"])

\* What socket() and connect() answer for one address.
ConnectAnswers == {"socket", "connect", "EINPROGRESS", "connected"}

RECURSIVE batgw_mqtt_connect(_, _, _)
\* batgw_mqtt_connect: the addresses left are tried in turn; outs[k] is the
\* answer for the address tried when k are left.
batgw_mqtt_connect(m, outs, fail) ==
    IF m.resn = 0 THEN batgw_mqtt_reconnect(m)
    ELSE LET o == outs[m.resn]
             m1 == [m EXCEPT !.resn = @ - 1]
         IN  IF o = "EINPROGRESS" THEN [m1 EXCEPT !.ev_wr = "connecting"]
             ELSE IF o = "connected" THEN batgw_mqtt_connected(m1, fail)
             ELSE batgw_mqtt_connect(m1, outs, fail)

\* batgw_mqtt_connected_ev: error is SO_ERROR of the socket, "getsockopt"
\* when it cannot be read.
batgw_mqtt_connected_ev(m, error, outs, fail) ==
    IF error = "getsockopt" THEN [m EXCEPT !.exit = TRUE]
    ELSE IF error = "EINPROGRESS" THEN m
    ELSE IF error # "0" THEN batgw_mqtt_connect([m EXCEPT !.ev_wr = "none"], outs, fail)
    ELSE batgw_mqtt_connected([m EXCEPT !.ev_wr = "none"], fail)

\* batgw_mqtt_addrinfo: the resolver's answer, n addresses when errcode = 0.
batgw_mqtt_addrinfo(m, errcode, n, outs, fail) ==
    IF errcode # 0 THEN batgw_mqtt_reconnect([m EXCEPT !.req = FALSE])
    ELSE batgw_mqtt_connect([m EXCEPT !.req = FALSE, !.resn = n], outs, fail)

\* batgw_mqtt_start: req is NULL when evdns_getaddrinfo fails.
batgw_mqtt_start(m, req) ==
    IF req = NULL THEN batgw_mqtt_reconnect(m) ELSE [m EXCEPT !.req = TRUE]

\* batgw_mqtt_to_reconnect adding its timer again before it starts.
batgw_mqtt_to_reconnect_again(m, req) ==
    batgw_mqtt_start(batgw_mqtt_reconnect(m), req)

\* batgw_mqtt_to_reconnect: the timer that fired is no longer pending.
batgw_mqtt_to_reconnect(m, req) ==
    batgw_mqtt_start([m EXCEPT !.ev_to_reconnect = FALSE], req)

\* batgw_mqtt_init
batgw_mqtt_init(req) ==
    batgw_mqtt_start([f \in DOMAIN batgw_mqtt0 \cup {"running", "exit"} |->
                        IF f = "running" THEN 0 ELSE IF f = "exit" THEN FALSE
                        ELSE batgw_mqtt0[f]], req)

\* Mutant of batgw_mqtt_on_connect: the session runs whatever mqtt_publish
\* returned for "Online".
batgw_mqtt_on_connect_norv(m, rv) == [m EXCEPT !.running = 1, !.ev_to_teleperiod = TRUE]

\* batgw_mqtt_on_connect up to its call of batgw_mqtt_teleperiod: rv is what
\* mqtt_publish returned for "Online".  The call re-arms the teleperiod timer.
batgw_mqtt_on_connect(m, rv) ==
    IF rv = -1 THEN batgw_mqtt_disconnect(m)
    ELSE [m EXCEPT !.running = 1, !.ev_to_teleperiod = TRUE]

\* What read() on the broker socket returns, and for a positive count what
\* mqtt_input then does: it calls on_connect for a CONNACK, mqtt_dead, or
\* neither.
ReadAnswers == {"EAGAIN", "EINTR", "ECONNRESET", "0", "CONNACK", "dead", "input"}

\* batgw_mqtt_rd
batgw_mqtt_rd(m, rd) ==
    IF rd \in {"EAGAIN", "EINTR", "input"} THEN m
    ELSE IF rd \in {"ECONNRESET", "dead"} THEN [m EXCEPT !.exit = TRUE]
    ELSE IF rd = "0" THEN batgw_mqtt_disconnect(m)
    ELSE batgw_mqtt_on_connect(m, m.publish_rv)

\* What write() on the broker socket returns.
WriteAnswers == {"EAGAIN", "EINTR", "EPIPE", "written"}

\* batgw_mqtt_wr: mqtt_output hands the pending bytes to batgw_mqtt_output.
\* ev_wr is not persistent; the library asks for it again (more) while
\* bytes are left.
batgw_mqtt_wr(m, wr, more) ==
    IF wr = "EPIPE" THEN [m EXCEPT !.exit = TRUE]
    ELSE [m EXCEPT !.ev_wr = IF more \/ wr # "written" THEN "added" ELSE "new"]

\* batgw_mqtt_to: mqtt_timeout; the library may ask for output (a ping) and
\* for its next timeout.
batgw_mqtt_to(m, ping, again) ==
    [m EXCEPT !.ev_to = IF again THEN "added" ELSE "new",
              !.ev_wr = IF ping THEN "added" ELSE @]

\* batgw_mqtt_want_timeout
batgw_mqtt_want_timeout(m) == [m EXCEPT !.ev_to = "added"]

\* The address bound of the resolver's answers.
MaxAddr == 2

\* struct batgw_mqtt of m.
BgmOf(m) == [f \in DOMAIN batgw_mqtt0 |-> m[f]]

\* The session record after batgw_mqtt_init, its resolver request in flight
\* (0), and with an open session whose CONNECT was written and whose
\* on-connect has run (1).
batgw_mqtt_session(running) ==
    LET m0 == batgw_mqtt_init("req")
        m1 == batgw_mqtt_addrinfo(m0, 0, 1, <<"connected">>, "")
        m2 == batgw_mqtt_wr(m1, "written", FALSE)
    IN  IF running = 0 THEN BgmOf(m0) ELSE BgmOf(batgw_mqtt_on_connect(m2, 0))

\* batgw_kv_publish: nothing unless a broker session is open; key names
\* the slot that is published.
batgw_kv_publish(out, scope, key, kv) ==
    IF mqtt_running = 0 THEN out
    ELSE Append(out, CHOOSE m \in { mqtt_publish(scope, key, x.kv_v, batgw_kv_topic(scope, x),
                                                  batgw_kv_payload(x), 0) : x \in {kv} } : TRUE)

(***************************************************************************)
(* The inverter-facing state (batgw.c) and the remaining getters.          *)
(***************************************************************************)

batgw_i_state0 == [is_running |-> 0, is_contactor |-> 0]

batgw_i_set_running(i) == [i EXCEPT !.is_running = 1]
batgw_i_set_stopped(i) == [i EXCEPT !.is_running = 0]
batgw_i_set_contactor(i, closed) == [i EXCEPT !.is_contactor = closed]

batgw_i_get_soc_cpct(s) ==
    IF ISSET(s.bs_valid, BATGW_B_VALID_SOC) THEN Present(s.bs_soc_cpct) ELSE Absent

\* C's / truncates towards zero.
CDiv(a, b) == IF a >= 0 THEN a \div b ELSE -((-a) \div b)

batgw_i_get_current_da(s) ==
    IF ISSET(s.bs_valid, BATGW_B_VALID_CURRENT) THEN Present(s.bs_current_da)
    ELSE Absent

\* The accessor deriving the average as soon as one of the extremes is set.
batgw_i_get_avg_temp_dc_either(s) ==
    IF ISSET(s.bs_valid, BATGW_B_VALID_AVG_TEMP) THEN Present(s.bs_avg_temp_dc)
    ELSE IF ~(ISSET(s.bs_valid, BATGW_B_VALID_MIN_TEMP)
              \/ ISSET(s.bs_valid, BATGW_B_VALID_MAX_TEMP)) THEN Absent
    ELSE Present(s.bs_min_temp_dc + CDiv(s.bs_max_temp_dc - s.bs_min_temp_dc, 2))

batgw_i_get_avg_temp_dc(s) ==
    IF ISSET(s.bs_valid, BATGW_B_VALID_AVG_TEMP) THEN Present(s.bs_avg_temp_dc)
    ELSE IF ~(ISSET(s.bs_valid, BATGW_B_VALID_MIN_TEMP)
              /\ ISSET(s.bs_valid, BATGW_B_VALID_MAX_TEMP)) THEN Absent
    ELSE Present(s.bs_min_temp_dc + CDiv(s.bs_max_temp_dc - s.bs_min_temp_dc, 2))

batgw_i_get_min_temp_dc(s) ==
    IF ISSET(s.bs_valid, BATGW_B_VALID_MIN_TEMP) THEN Present(s.bs_min_temp_dc) ELSE Absent

batgw_i_get_max_temp_dc(s) ==
    IF ISSET(s.bs_valid, BATGW_B_VALID_MAX_TEMP) THEN Present(s.bs_max_temp_dc) ELSE Absent

batgw_i_get_rated_capacity_ah(s) ==
    IF s.bs_rated_capacity_ah # 0 THEN Present(s.bs_rated_capacity_ah) ELSE Absent

(***************************************************************************)
(* Timers (libevent evtimers).  tmo[t] is the time left in seconds of a    *)
(* pending timer and NotPending otherwise.                                 *)
(***************************************************************************)

NotPending == 0 - 1

Timers == {"byd_can_wdog", "byd_can_i_wdog", "byd_can_i_2s", "byd_can_i_10s", "byd_can_i_60s"}

NoTimers == [t \in Timers |-> NotPending]

evtimer_add(tm, t, secs) == [tm EXCEPT ![t] = secs]
evtimer_del(tm, t) == [tm EXCEPT ![t] = NotPending]
evtimer_pending(tm, t) == tm[t] # NotPending

\* b_byd.c byd_wdog_tv; i_byd_can.c byd_wdog_tv, byd_2s, byd_10s, byd_60s.
byd_wdog_tv == 10
byd_i_wdog_tv == 60
byd_2s == 2
byd_10s == 10
byd_60s == 60

(***************************************************************************)
(* Driver state after attach.                                              *)
(***************************************************************************)

BYD_CAN_KVS == {"BYD_CAN_KV_TEMP", "BYD_CAN_KV_SEND_VOLTAGE", "BYD_CAN_KV_RECV_VOLTAGE",
                "BYD_CAN_KV_DISCHARGE_CURRENT", "BYD_CAN_KV_CHARGE_CURRENT"}

\* byd_can_kvs_tpl.  As in the source, the last two initialisers both name
\* BYD_CAN_KV_DISCHARGE_CURRENT: the later one stands, and the element
\* BYD_CAN_KV_CHARGE_CURRENT is left zeroed.
byd_can_kvs_tpl ==
    [k \in BYD_CAN_KVS |->
        CASE k = "BYD_CAN_KV_TEMP" -> Tpl("temperature", "KV_T_TEMP", 1)
          [] k = "BYD_CAN_KV_SEND_VOLTAGE" -> Tpl("send-voltage", "KV_T_VOLTAGE", 1)
          [] k = "BYD_CAN_KV_RECV_VOLTAGE" -> Tpl("recv-voltage", "KV_T_VOLTAGE", 1)
          [] k = "BYD_CAN_KV_DISCHARGE_CURRENT" -> Tpl("max-charge", "KV_T_CURRENT", 1)
          [] k = "BYD_CAN_KV_CHARGE_CURRENT" -> TplZero]

\* byd_can_i_attach: calloc'd softc, every key initialised from its template.
byd_can_i_attach ==
    [running |-> 0, inverter_time |-> 0,
     kvs |-> [k \in BYD_CAN_KVS |-> batgw_kv_init_tpl(byd_can_kvs_tpl[k])]]

BYD_KVS == {"BYD_KV_AMBIENT", "BYD_KV_VOLTAGE", "BYD_KV_SOC", "BYD_KV_PID_SOC",
            "BYD_KV_PID_VOLTAGE", "BYD_KV_PID_CURRENT", "BYD_KV_PID_TEMP_MIN",
            "BYD_KV_PID_TEMP_MAX", "BYD_KV_PID_TEMP_AVG", "BYD_KV_PID_MV_MIN",
            "BYD_KV_PID_MV_MAX", "BYD_KV_PID_MV_DELTA", "BYD_KV_PID_DISCHARGE_POWER",
            "BYD_KV_PID_CHARGE_POWER", "BYD_KV_PID_CHARGE_COUNT", "BYD_KV_PID_CHARGED_AH",
            "BYD_KV_PID_DISCHARGED_AH", "BYD_KV_PID_CHARGED_KWH",
            "BYD_KV_PID_DISCHARGED_KWH"}

\* nitems(sc->pack)
NPack == 10

byd_kvs_tpl ==
    [k \in BYD_KVS |->
        CASE k = "BYD_KV_AMBIENT" -> Tpl("ambient", "KV_T_TEMP", 0)
          [] k = "BYD_KV_VOLTAGE" -> Tpl("", "KV_T_VOLTAGE", 0)
          [] k = "BYD_KV_SOC" -> Tpl("soc", "KV_T_PERCENT", 1)
          [] k = "BYD_KV_PID_SOC" -> Tpl("pid-soc", "KV_T_PERCENT", 0)
          [] k = "BYD_KV_PID_VOLTAGE" -> Tpl("pid", "KV_T_VOLTAGE", 0)
          [] k = "BYD_KV_PID_CURRENT" -> Tpl("pid", "KV_T_CURRENT", 1)
          [] k = "BYD_KV_PID_TEMP_MIN" -> Tpl("min", "KV_T_TEMP", 0)
          [] k = "BYD_KV_PID_TEMP_MAX" -> Tpl("max", "KV_T_TEMP", 0)
          [] k = "BYD_KV_PID_TEMP_AVG" -> Tpl("avg", "KV_T_TEMP", 0)
          [] k = "BYD_KV_PID_MV_MIN" -> Tpl("cell-min", "KV_T_VOLTAGE", 3)
          [] k = "BYD_KV_PID_MV_MAX" -> Tpl("cell-max", "KV_T_VOLTAGE", 3)
          [] k = "BYD_KV_PID_MV_DELTA" -> Tpl("cell-delta", "KV_T_VOLTAGE", 3)
          [] k = "BYD_KV_PID_DISCHARGE_POWER" -> Tpl("max-discharge", "KV_T_POWER", 0)
          [] k = "BYD_KV_PID_CHARGE_POWER" -> Tpl("max-charge", "KV_T_POWER", 0)
          [] k = "BYD_KV_PID_CHARGE_COUNT" -> Tpl("charge-count", "KV_T_COUNT", 0)
          [] k = "BYD_KV_PID_CHARGED_AH" -> Tpl("charged", "KV_T_AMPHOUR", 0)
          [] k = "BYD_KV_PID_DISCHARGED_AH" -> Tpl("discharged", "KV_T_AMPHOUR", 0)
          [] k = "BYD_KV_PID_CHARGED_KWH" -> Tpl("charged", "KV_T_ENERGY", 0)
          [] k = "BYD_KV_PID_DISCHARGED_KWH" -> Tpl("discharged", "KV_T_ENERGY", 0)]

\* Bytes 6 and 7 of the 50 ms message and what each message takes off them.
BYD_50MS_6_INITIALIZER == \HBF
BYD_50MS_7_INITIALIZER == \H59
BYD_50MS_DECR == \H10

\* The slots of pack[] and cell[] as byd_b_attach initialises them:
\* "pack%u" temperatures and "cell%u" voltages in mV.
byd_array_kv(arr, i) ==
    IF arr = "pack" THEN batgw_kv_init("pack" \o ToString(i), "KV_T_TEMP", 0)
    ELSE batgw_kv_init("cell" \o ToString(i), "KV_T_VOLTAGE", 3)

\* byd_b_attach: the named keys, and the pack[] and cell[] arrays.  The
\* arrays hold only the slots written so far; every other slot still has
\* the value batgw_kv_init gave it.
byd_b_attach ==
    [kvs |-> [k \in BYD_KVS |-> batgw_kv_init_tpl(byd_kvs_tpl[k])],
     pack |-> <<>>, cell |-> <<>>, ncell |-> batgw_b_config.ncells,
     can_poll_idx |-> 0, can_poll |-> "new",
     can_50ms_6 |-> BYD_50MS_6_INITIALIZER, can_50ms_7 |-> BYD_50MS_7_INITIALIZER,
     can_50ms |-> "new", can_50ms_change |-> "new", can_100ms |-> "new"]

\* v_safe = arc4random(); do { v_unsafe = arc4random(); } while (v_unsafe == v_safe);
\* the pairs the loop can end with.
SentinelDraw(vs, vu) == vs \in Tokens /\ vu \in Tokens /\ ~(vu = vs)

\* What the last call returned; NoRet when the last step was no direct call.
NoRet == [fn |-> "none", arg |-> 0, val |-> 0]

\* The part of the state the supervisor functions do not touch, as main
\* leaves it once both drivers are attached.
InitRest ==
    /\ is = batgw_i_state0
    /\ bg_unsafe_reason = NULL
    /\ isc = byd_can_i_attach
    /\ bsc = byd_b_attach
    /\ tmo = NoTimers
    /\ now = 0
    /\ mqtt_running = 0
    /\ bgm = batgw_mqtt_session(0)
    /\ sent = <<>>
    /\ logged = <<>>
    /\ pub = <<>>
    /\ quiet = 0
    /\ ret = NoRet
    /\ aborted = FALSE

(***************************************************************************)
(* The drivers' callbacks.  Each is a function of the gateway state g: the *)
(* mutable state a callback can reach through struct batgw, with the       *)
(* frames it hands to send(), the warnings it logs and the messages it     *)
(* publishes.  A failing send() writes a warning and changes nothing else. *)
(***************************************************************************)

\* The state a callback starts from.
Cur ==
    [bs |-> bs, is |-> is, reason |-> bg_unsafe_reason, isc |-> isc, bsc |-> bsc,
     tmo |-> tmo, sent |-> <<>>, logged |-> <<>>, pub |-> <<>>, aborted |-> FALSE]

\* send(fd, &frame, sizeof(frame), 0) on the socket of one of the two buses.
send(g, can, frame) == [g EXCEPT !.sent = Append(@, [can |-> can, frame |-> frame])]

\* batgw_kv_update(bg, "inverter", &sc->kvs[k], v).  x is g and r the
\* result of batgw_kv_update, each worked out once.
byd_can_i_kv_update(g, k, v) ==
    CHOOSE h \in { [x EXCEPT !.isc.kvs[k] = r.kv,
                             !.pub = IF r.publish
                                     THEN batgw_kv_publish(@, "inverter", k, r.kv) ELSE @] :
                   x \in {g}, r \in {batgw_kv_update(g.isc.kvs[k], v, now)} } : TRUE

\* Mutant of byd_can_i_wdog: the interval emitters are left pending.
byd_can_i_wdog_keep(g) ==
    [g EXCEPT !.logged = Append(@, "byd_can_i_wdog"),
              !.is = batgw_i_set_contactor(batgw_i_set_stopped(@), 0)]

byd_can_i_wdog(g) ==
    [g EXCEPT !.logged = Append(@, "byd_can_i_wdog"),
              !.is = batgw_i_set_contactor(batgw_i_set_stopped(@), 0),
              !.tmo = evtimer_del(evtimer_del(evtimer_del(@,
                          "byd_can_i_2s"), "byd_can_i_10s"), "byd_can_i_60s")]

\* "BYD" and "Battery-Box Premium HVS", each with its terminating NUL
\* (sizeof counts it).
byd_hvs_vendor == <<66, 89, 68, 0>>
byd_hvs_product ==
    <<66, 97, 116, 116, 101, 114, 121, 45, 66, 111, 120, 32,
      80, 114, 101, 109, 105, 117, 109, 32, 72, 86, 83, 0>>

RECURSIVE byd_can_i_send_str_trailing(_, _, _, _)
\* Mutant of byd_can_i_send_str: the loop ends on a short packet instead of
\* on an empty rest, so a string of 7, 14, ... bytes gets an extra packet.
byd_can_i_send_str_trailing(g, id, str, i) ==
    LET len == Len(str)
        flen == IF len > 7 THEN 7 ELSE len
        data == <<i % 256>> \o SubSeq(str, 1, flen) \o [k \in 1 .. (7 - flen) |-> 0]
        g1 == send(g, "inverter", Frame(id, data))
    IN  IF flen < 7 THEN g1
        ELSE byd_can_i_send_str_trailing(g1, id, SubSeq(str, flen + 1, len), i + 1)

RECURSIVE byd_can_i_send_str(_, _, _, _)
\* The loop of byd_can_i_send_str, entered with packet index i and str the
\* bytes not yet sent.
byd_can_i_send_str(g, id, str, i) ==
    LET len == Len(str)
        flen == IF len > 7 THEN 7 ELSE len
        data == <<i % 256>> \o SubSeq(str, 1, flen) \o [k \in 1 .. (7 - flen) |-> 0]
        g1 == send(g, "inverter", Frame(id, data))
    IN  IF len - flen = 0 THEN g1
        ELSE byd_can_i_send_str(g1, id, SubSeq(str, flen + 1, len), i + 1)

byd_can_i_2s(g) ==
    LET g1 == [g EXCEPT !.tmo = evtimer_add(@, "byd_can_i_2s", byd_2s)]
        min_dv == batgw_i_get_min_voltage_dv(g1.bs)
        max_dv == batgw_i_get_max_voltage_dv(g1.bs)
        sf == batgw_i_get_safety(g1.bs, bconf, g1.reason, v_safe, v_unsafe)
        g2 == [g1 EXCEPT !.reason = sf.reason, !.logged = @ \o sf.log]
        f1 == can_htobe16(Frame(\H110, Zeros), 0, max_dv.v - BYD_HVS_VOLTAGE_OFFSET_DV)
        f2 == can_htobe16(f1, 2, min_dv.v + BYD_HVS_VOLTAGE_OFFSET_DV)
        dda == batgw_i_get_discharge_da(g2.bs, bconf, sf.token, v_safe, v_unsafe)
        g3 == byd_can_i_kv_update(g2, "BYD_CAN_KV_DISCHARGE_CURRENT", dda.rv)
        f3 == can_htobe16(f2, 4, dda.rv)
        cda == batgw_i_get_charge_da(g3.bs, bconf, sf.token, v_safe, v_unsafe)
        g4 == byd_can_i_kv_update(g3, "BYD_CAN_KV_CHARGE_CURRENT", cda.rv)
        f4 == can_htobe16(f3, 6, cda.rv)
    IN  IF min_dv.rv # 0 \/ max_dv.rv # 0 THEN g1
        ELSE IF dda.abort THEN [g2 EXCEPT !.aborted = TRUE]
        ELSE IF cda.abort THEN [g3 EXCEPT !.aborted = TRUE]
        ELSE send(g4, "inverter", f4)

byd_can_send_150(g) ==
    LET soc == batgw_i_get_soc_cpct(g.bs)
        ah == batgw_i_get_rated_capacity_ah(g.bs)
        f1 == can_htobe16(Frame(\H150, Zeros), 0, soc.v)
        f2 == can_htobe16(f1, 2, 9900)
        f3 == can_htobe16(f2, 4, (ah.v * soc.v) \div 10000)
        f4 == can_htobe16(f3, 6, ah.v)
    IN  IF soc.rv # 0 \/ ah.rv # 0 THEN g ELSE send(g, "inverter", f4)

byd_can_send_1d0(g) ==
    LET temp == batgw_i_get_avg_temp_dc(g.bs)
        bdv == batgw_i_get_voltage_dv(g.bs)
        dv == IF bdv.rv # 0 THEN 0 ELSE bdv.v
        g1 == byd_can_i_kv_update(g, "BYD_CAN_KV_SEND_VOLTAGE", dv)
        f1 == can_htobe16(Frame(\H1D0, Zeros), 0, dv)
        f2 == can_htobe16(f1, 2, 0)
        f3 == can_htobe16(f2, 4, temp.v)
    IN  IF temp.rv # 0 THEN g ELSE send(g1, "inverter", f3)

\* As in the source, both reads are of the minimum temperature.
byd_can_send_210(g) ==
    LET min_temp == batgw_i_get_min_temp_dc(g.bs)
        max_temp == batgw_i_get_min_temp_dc(g.bs)
        f1 == can_htobe16(Frame(\H210, Zeros), 0, max_temp.v)
        f2 == can_htobe16(f1, 2, min_temp.v)
    IN  IF min_temp.rv # 0 \/ max_temp.rv # 0 THEN g ELSE send(g, "inverter", f2)

byd_can_i_10s(g) ==
    LET g1 == [g EXCEPT !.tmo = evtimer_add(@, "byd_can_i_10s", byd_10s)] IN
    byd_can_send_210(byd_can_send_1d0(byd_can_send_150(g1)))

byd_can_i_60s(g) ==
    LET g1 == [g EXCEPT !.tmo = evtimer_add(@, "byd_can_i_60s", byd_60s)] IN
    send(g1, "inverter", Frame(\H190, <<0, 0, 3, 0, 0, 0, 0, 0>>))

\* Mutant of byd_can_i_hello: the 10 s emitter is called before the 2 s one.
byd_can_i_hello_swapped(g) ==
    LET wh == batgw_i_get_rated_capacity_wh(g.bs)
        f250 == can_htobe16(Frame(\H250, <<3, \H29, 0, \H66, 0, 0, 2, 9>>), 4, wh.v \div 100)
        g1 == send(g, "inverter", f250)
        g2 == send(g1, "inverter", Frame(\H290, <<6, \H37, \H10, \HD9, 0, 0, 0, 0>>))
        g3 == byd_can_i_send_str(g2, \H2D0, byd_hvs_vendor, 0)
        g4 == byd_can_i_send_str(g3, \H3D0, byd_hvs_product, 0)
        g5 == byd_can_i_10s(g4)
        g6 == byd_can_i_2s(g5)
        g7 == IF g6.aborted THEN g6 ELSE byd_can_i_60s(g6)
    IN  IF wh.rv # 0 THEN g ELSE g7

\* abort() in an emitter ends the process: the later ones do not run.
byd_can_i_hello(g) ==
    LET wh == batgw_i_get_rated_capacity_wh(g.bs)
        f250 == can_htobe16(Frame(\H250, <<3, \H29, 0, \H66, 0, 0, 2, 9>>), 4, wh.v \div 100)
        g1 == send(g, "inverter", f250)
        g2 == send(g1, "inverter", Frame(\H290, <<6, \H37, \H10, \HD9, 0, 0, 0, 0>>))
        g3 == byd_can_i_send_str(g2, \H2D0, byd_hvs_vendor, 0)
        g4 == byd_can_i_send_str(g3, \H3D0, byd_hvs_product, 0)
        g5 == byd_can_i_2s(g4)
        g6 == IF g5.aborted THEN g5 ELSE byd_can_i_10s(g5)
        g7 == IF g6.aborted THEN g6 ELSE byd_can_i_60s(g6)
    IN  IF wh.rv # 0 THEN g ELSE g7

\* The body of byd_can_i_recv once recv() has returned a frame.  ub is what
\* the comparison of the uninitialised bdv yields when the pack voltage is
\* not known: the source enters the branch when the getter fails.
byd_can_i_recv(g, frame, ub) ==
    LET id == frame.can_id
        g1 == [g EXCEPT !.isc.running = 1]
        g2 == IF id \in {\H019, \H0D1, \H111, \H151}
              THEN [g1 EXCEPT !.is = batgw_i_set_running(@),
                              !.tmo = evtimer_add(@, "byd_can_i_wdog", byd_i_wdog_tv)]
              ELSE g1
        idv == can_betoh16(frame, 0)
        g3 == byd_can_i_kv_update(g2, "BYD_CAN_KV_RECV_VOLTAGE", idv)
        contactor == IF batgw_i_get_voltage_dv(g3.bs).rv # 0 THEN ub ELSE 0
        g4 == [g3 EXCEPT !.is = batgw_i_set_contactor(@, contactor)]
    IN  IF frame.len # 8 THEN g
        ELSE IF g.isc.running = 0 /\ (id # \H151 /\ Byte(frame, 0) # 1) THEN g
        ELSE IF g.isc.running = 0 /\ batgw_b_get_running(g.bs) = 0 THEN g
        ELSE IF id = \H151
            THEN IF Byte(frame, 0) = 1 THEN byd_can_i_hello(g2) ELSE g2
        ELSE IF id = \H091
            THEN byd_can_i_kv_update(g4, "BYD_CAN_KV_TEMP", can_betoh16(frame, 4))
        ELSE IF id = \H111
            THEN [g2 EXCEPT !.isc.inverter_time = can_betoh32(frame, 0)]
        ELSE g2

\* recv() returned -1: EAGAIN and EINTR are silent, anything else is logged;
\* the callback returns either way.
byd_can_i_recv_fail(g, errno) ==
    IF errno \in {"EAGAIN", "EINTR"} THEN g
    ELSE [g EXCEPT !.logged = Append(@, "byd can inverter recv")]

(***************************************************************************)
(* The BYD battery driver (b_byd.c).                                       *)
(***************************************************************************)

\* The pack state byd_b_dispatch leaves.  The periodic emitters it starts
\* (byd_can_50ms, byd_can_100ms, byd_can_poll) write nothing that the
\* callbacks below read.
byd_b_dispatch(s, conf) ==
    batgw_b_set_max_voltage_dv(
        batgw_b_set_min_voltage_dv(
            batgw_b_set_rated_voltage_dv(
                batgw_b_set_rated_capacity_ah(s, conf.rated_capacity_ah),
                conf.rated_voltage_dv),
            3800),
        4410)

\* A slot of pack[] or cell[].
KvAt(arr, tbl, key) == IF key \in DOMAIN tbl THEN tbl[key] ELSE byd_array_kv(arr, key)

\* batgw_kv_update(bg, "battery", &sc->kvs[k], v)
byd_kv_update(g, k, v) ==
    CHOOSE h \in { [x EXCEPT !.bsc.kvs[k] = r.kv,
                             !.pub = IF r.publish
                                     THEN batgw_kv_publish(@, "battery", k, r.kv) ELSE @] :
                   x \in {g}, r \in {batgw_kv_update(g.bsc.kvs[k], v, now)} } : TRUE

\* The name of slot key of pack[] or cell[], as "pack[3]".
ArrSlot(arr, key) == arr \o "[" \o ToString(key) \o "]"

\* batgw_kv_update on slot key of pack[] (arr = "pack") or cell[].
byd_kv_update_at(g, arr, key, v) ==
    CHOOSE h \in { [x EXCEPT !.bsc[arr] = (key :> r.kv) @@ @,
                             !.pub = IF r.publish
                                     THEN batgw_kv_publish(@, "battery", ArrSlot(arr, key), r.kv)
                                     ELSE @] :
                   x \in {g}, r \in {batgw_kv_update(KvAt(arr, g.bsc[arr], key), v, now)} } : TRUE

RECURSIVE byd_can_recv_43c_nobound(_, _, _)
\* The loop of case 0x43c without its test of key against nitems(sc->pack).
byd_can_recv_43c_nobound(g, frame, i) ==
    LET key == Byte(frame, 0) * 6 + i IN
    IF i >= 6 THEN g
    ELSE byd_can_recv_43c_nobound(byd_kv_update_at(g, "pack", key, bydtodegc(frame, 1 + i)),
                                  frame, i + 1)

RECURSIVE byd_can_recv_43c(_, _, _)
\* The loop of case 0x43c from index i on.
byd_can_recv_43c(g, frame, i) ==
    LET key == Byte(frame, 0) * 6 + i IN
    IF i >= 6 \/ key >= NPack THEN g
    ELSE byd_can_recv_43c(byd_kv_update_at(g, "pack", key, bydtodegc(frame, 1 + i)),
                          frame, i + 1)

RECURSIVE byd_can_recv_43d(_, _, _)
\* The loop of case 0x43d from index i on.
byd_can_recv_43d(g, frame, i) ==
    LET key == Byte(frame, 0) * 3 + i IN
    IF i >= 3 \/ key >= g.bsc.ncell THEN g
    ELSE byd_can_recv_43d(byd_kv_update_at(g, "cell", key, can_letoh16(frame, 1 + 2 * i)),
                          frame, i + 1)

\* The ids that show the pack is alive.
BydBroadcastIds ==
    {\H244, \H245, \H286, \H344, \H345, \H347, \H34A, \H35E, \H360, \H36C, \H438,
     \H43A, \H43B, \H43C, \H43D, \H444, \H445, \H446, \H447, \H47B, \H524}

\* int sv = uv - batgw_kv_get(...): the subtraction is unsigned and wraps, so
\* against INT_MIN (key never updated) it yields uv - 2^31 as an int.
byd_mv_delta(uv, min) == IF min = INT_MIN THEN uv + INT_MIN ELSE uv - min

\* case 0x7ef: the answer to a PID poll.
byd_can_recv_pid(g, frame) ==
    LET g1 == IF Byte(frame, 0) = \H10
              THEN send(g, "battery", Frame(\H7E7, <<\H30, 8, 5, 0, 0, 0, 0, 0>>))
              ELSE g
        pid == can_betoh16(frame, 2)
        uv == can_letoh16(frame, 4)
        sv == bydtodegc(frame, 4)
        BS(x) == [g1 EXCEPT !.bs = x]
    IN  CASE pid = \H0005 -> byd_kv_update(g1, "BYD_KV_PID_SOC", Byte(frame, 4))
          [] pid = \H0008 ->
                byd_kv_update(BS(batgw_b_set_voltage_dv(g1.bs, uv * 10)),
                              "BYD_KV_PID_VOLTAGE", uv)
          [] pid = \H0009 -> byd_kv_update(g1, "BYD_KV_PID_CURRENT", uv - 5000)
          [] pid = \H002F ->
                byd_kv_update(BS(batgw_b_set_min_temp_dc(g1.bs, sv * 10)),
                              "BYD_KV_PID_TEMP_MIN", sv)
          [] pid = \H0031 ->
                byd_kv_update(BS(batgw_b_set_max_temp_dc(g1.bs, sv * 10)),
                              "BYD_KV_PID_TEMP_MAX", sv)
          [] pid = \H0032 ->
                byd_kv_update(BS(batgw_b_set_avg_temp_dc(g1.bs, sv * 10)),
                              "BYD_KV_PID_TEMP_AVG", sv)
          [] pid = \H002B ->
                byd_kv_update(BS(batgw_b_set_min_cell_voltage_mv(g1.bs, uv)),
                              "BYD_KV_PID_MV_MIN", uv)
          [] pid = \H002D ->
                LET g2 == byd_kv_update(BS(batgw_b_set_max_cell_voltage_mv(g1.bs, uv)),
                                        "BYD_KV_PID_MV_MAX", uv)
                    d == byd_mv_delta(uv, batgw_kv_get(g2.bsc.kvs["BYD_KV_PID_MV_MIN"]))
                IN  IF d >= 0 THEN byd_kv_update(g2, "BYD_KV_PID_MV_DELTA", d) ELSE g2
          [] pid = \H000A ->
                byd_kv_update(BS(batgw_b_set_charge_w(g1.bs, uv * 100)),
                              "BYD_KV_PID_CHARGE_POWER", uv * 100)
          [] pid = \H000E ->
                byd_kv_update(BS(batgw_b_set_discharge_w(g1.bs, uv * 100)),
                              "BYD_KV_PID_DISCHARGE_POWER", uv * 100)
          [] pid = \H000B -> byd_kv_update(g1, "BYD_KV_PID_CHARGE_COUNT", uv)
          [] pid = \H000F -> byd_kv_update(g1, "BYD_KV_PID_CHARGED_AH", uv)
          [] pid = \H0010 -> byd_kv_update(g1, "BYD_KV_PID_DISCHARGED_AH", uv)
          [] pid = \H0011 -> byd_kv_update(g1, "BYD_KV_PID_CHARGED_KWH", uv)
          [] pid = \H0012 -> byd_kv_update(g1, "BYD_KV_PID_DISCHARGED_KWH", uv)
          [] OTHER -> g1

\* The body of byd_can_recv once recv() has returned a frame.
byd_can_recv(g, frame) ==
    LET id == frame.can_id
        g1 == IF id \in BydBroadcastIds
              THEN [g EXCEPT !.bs = batgw_b_set_running(@),
                             !.tmo = evtimer_add(@, "byd_can_wdog", byd_wdog_tv)]
              ELSE g
    IN  IF frame.len # 8 THEN g
        ELSE IF id = \H245
            THEN IF Byte(frame, 0) = 1
                 THEN byd_kv_update(g1, "BYD_KV_AMBIENT", bydtodegc(frame, 4))
                 ELSE g1
        ELSE IF id = \H43C THEN byd_can_recv_43c(g1, frame, 0)
        ELSE IF id = \H43D THEN byd_can_recv_43d(g1, frame, 0)
        ELSE IF id = \H444
            THEN byd_kv_update(g1, "BYD_KV_VOLTAGE", can_letoh16(frame, 0))
        ELSE IF id = \H447
            THEN byd_kv_update(
                     [g1 EXCEPT !.bs = batgw_b_set_soc_c_pct(@, can_letoh16(frame, 4) * 10)],
                     "BYD_KV_SOC", can_letoh16(frame, 4))
        ELSE IF id = \H7EF THEN byd_can_recv_pid(g1, frame)
        ELSE g1

byd_can_recv_fail(g, errno) ==
    IF errno \in {"EAGAIN", "EINTR"} THEN g
    ELSE [g EXCEPT !.logged = Append(@, "byd battery can recv")]

\* The enums byd_kvs and byd_can_kvs in their order.
byd_kvs_enum ==
    <<"BYD_KV_AMBIENT", "BYD_KV_VOLTAGE", "BYD_KV_SOC", "BYD_KV_PID_SOC",
      "BYD_KV_PID_VOLTAGE", "BYD_KV_PID_CURRENT", "BYD_KV_PID_TEMP_MIN",
      "BYD_KV_PID_TEMP_MAX", "BYD_KV_PID_TEMP_AVG", "BYD_KV_PID_MV_MIN",
      "BYD_KV_PID_MV_MAX", "BYD_KV_PID_MV_DELTA", "BYD_KV_PID_DISCHARGE_POWER",
      "BYD_KV_PID_CHARGE_POWER", "BYD_KV_PID_CHARGE_COUNT", "BYD_KV_PID_CHARGED_AH",
      "BYD_KV_PID_DISCHARGED_AH", "BYD_KV_PID_CHARGED_KWH", "BYD_KV_PID_DISCHARGED_KWH">>

byd_can_kvs_enum ==
    <<"BYD_CAN_KV_TEMP", "BYD_CAN_KV_SEND_VOLTAGE", "BYD_CAN_KV_RECV_VOLTAGE",
      "BYD_CAN_KV_DISCHARGE_CURRENT", "BYD_CAN_KV_CHARGE_CURRENT">>

\* One turn of a teleperiod loop: if (kv->kv_v == INT_MIN) continue;
\* batgw_kv_publish(bg, scope, kv).  The result is what the turn adds to
\* the messages published: one message or none.
teleperiod_turn(scope, key, kv) ==
    IF kv.kv_v = INT_MIN THEN <<>> ELSE batgw_kv_publish(<<>>, scope, key, kv)

\* The messages of the turns of a loop, in the order of the turns.
teleperiod_loop(turns) ==
    CHOOSE msgs \in { [i \in 1 .. Len(done) |-> done[i][1]] :
                      done \in {SelectSeq(turns, LAMBDA out : out # <<>>)} } : TRUE

\* byd_b_teleperiod taking a published key of kvs[] as published now.
byd_b_teleperiod_stamp(g) ==
    CHOOSE h \in {
        LET kvs == [i \in 1 .. Len(byd_kvs_enum) |->
                       teleperiod_turn("battery", byd_kvs_enum[i], sc.kvs[byd_kvs_enum[i]])]
            pack == [i \in 1 .. NPack |->
                       teleperiod_turn("battery", ArrSlot("pack", i - 1),
                                       KvAt("pack", sc.pack, i - 1))]
            cell == [i \in 1 .. sc.ncell |->
                       teleperiod_turn("battery", ArrSlot("cell", i - 1),
                                       KvAt("cell", sc.cell, i - 1))]
        IN  [x EXCEPT !.pub = @ \o teleperiod_loop(kvs \o pack \o cell),
                      !.bsc.kvs = [k \in DOMAIN sc.kvs |->
                                     IF sc.kvs[k].kv_v = INT_MIN \/ mqtt_running = 0
                                     THEN sc.kvs[k]
                                     ELSE [sc.kvs[k] EXCEPT !.kv_updated = now]]] :
        x \in {g}, sc \in {g.bsc} } : TRUE

\* byd_b_teleperiod: the loops over kvs[], pack[] and cell[0 .. ncell - 1].
\* x is g and sc its softc, each worked out once.
byd_b_teleperiod(g) ==
    CHOOSE h \in {
        LET kvs == [i \in 1 .. Len(byd_kvs_enum) |->
                       teleperiod_turn("battery", byd_kvs_enum[i], sc.kvs[byd_kvs_enum[i]])]
            pack == [i \in 1 .. NPack |->
                       teleperiod_turn("battery", ArrSlot("pack", i - 1),
                                       KvAt("pack", sc.pack, i - 1))]
            cell == [i \in 1 .. sc.ncell |->
                       teleperiod_turn("battery", ArrSlot("cell", i - 1),
                                       KvAt("cell", sc.cell, i - 1))]
        IN  [x EXCEPT !.pub = @ \o teleperiod_loop(kvs \o pack \o cell)] :
        x \in {g}, sc \in {g.bsc} } : TRUE

\* byd_can_i_teleperiod: the loop over kvs[].
byd_can_i_teleperiod(g) ==
    CHOOSE h \in {
        LET kvs == [i \in 1 .. Len(byd_can_kvs_enum) |->
                       teleperiod_turn("inverter", byd_can_kvs_enum[i],
                                       x.isc.kvs[byd_can_kvs_enum[i]])]
        IN  [x EXCEPT !.pub = @ \o teleperiod_loop(kvs)] :
        x \in {g} } : TRUE

\* Mutant of batgw_mqtt_teleperiod: the inverter's keys are left out.
batgw_mqtt_teleperiod_battery(g) == byd_b_teleperiod(g)

\* batgw_mqtt_teleperiod: re-arms its timer and sweeps the battery's, then
\* the inverter's keys.  The timer is pending exactly while the session
\* runs: batgw_mqtt_on_connect starts it, batgw_mqtt_disconnect deletes it.
batgw_mqtt_teleperiod(g) == byd_can_i_teleperiod(byd_b_teleperiod(g))

\* Mutant of byd_can_wdog: the expiry leaves the pack marked running.
byd_can_wdog_idle(g) == g

\* byd_can_wdog forgetting what the pack has reported.
byd_can_wdog_reset(g) ==
    [g EXCEPT !.bs = [batgw_b_set_stopped(@) EXCEPT !.bs_valid = {},
                                                    !.bs_min_cell_voltage_mv = 0,
                                                    !.bs_max_cell_voltage_mv = 0]]

byd_can_wdog(g) == [g EXCEPT !.bs = batgw_b_set_stopped(@)]

(***************************************************************************)
(* SpecSafety: the safety supervisor as functions of the pack state.  The  *)
(* pack states are built with the setters from the values the BYD driver   *)
(* can store: temperatures (byte - 40) * 10 dC, cell voltages in mV, the   *)
(* pack voltage le16 * 10, the power limits le16 * 100.                    *)
(***************************************************************************)

Opt(S) == {<<>>} \cup {<<x>> : x \in S}

PackOf(run, tmin, tmax, cmin, cmax, dv, cw, dw) ==
    LET s0 == IF run = 1 THEN batgw_b_set_running(batgw_b_state0) ELSE batgw_b_state0
        s1 == IF tmin = <<>> THEN s0 ELSE batgw_b_set_min_temp_dc(s0, tmin[1])
        s2 == IF tmax = <<>> THEN s1 ELSE batgw_b_set_max_temp_dc(s1, tmax[1])
        s3 == IF cmin = <<>> THEN s2 ELSE batgw_b_set_min_cell_voltage_mv(s2, cmin[1])
        s4 == IF cmax = <<>> THEN s3 ELSE batgw_b_set_max_cell_voltage_mv(s3, cmax[1])
        s5 == IF dv = <<>> THEN s4 ELSE batgw_b_set_voltage_dv(s4, dv[1])
        s6 == IF cw = <<>> THEN s5 ELSE batgw_b_set_charge_w(s5, cw[1])
        s7 == IF dw = <<>> THEN s6 ELSE batgw_b_set_discharge_w(s6, dw[1])
    IN  s7

\* Pack states that exercise every check of the verdict, at its boundary.
VerdictInputs ==
    { PackOf(run, tmin, tmax, cmin, cmax, <<4000>>, <<5000>>, <<3000>>) :
        run \in {0, 1},
        tmin \in Opt({-260, -250, 350, 360}), tmax \in Opt({350, 500, 510}),
        cmin \in Opt({3000, 3700}), cmax \in Opt({3149, 3150}) }

\* Pack states that exercise the envelope: cell extremes around the
\* configured limits, the pack voltage and the manufacturer power limits.
EnvelopeInputs ==
    { PackOf(1, <<250>>, <<300>>, <<cmin>>, <<cmax>>, dv, cw, dw) :
        cmin \in {2750, 3000, 3700}, cmax \in {2850, 3149, 3810},
        dv \in Opt({0, 4000}), cw \in Opt({3000, 5000}), dw \in Opt({3000, 5000}) }

InitSafety ==
    /\ SentinelDraw(v_safe, v_unsafe)
    /\ bconf = batgw_b_config
    /\ bs \in VerdictInputs \cup EnvelopeInputs
    /\ InitRest

\* A direct call of batgw_i_get_safety.
Call_get_safety ==
    /\ ~aborted
    /\ LET r == batgw_i_get_safety(bs, bconf, bg_unsafe_reason, v_safe, v_unsafe) IN
        /\ ret' = [fn |-> "batgw_i_get_safety", arg |-> 0, val |-> r.token]
        /\ bg_unsafe_reason' = r.reason
        /\ logged' = r.log
    /\ UNCHANGED <<v_safe, v_unsafe, bconf, bs, is, isc, bsc, tmo, now, mqtt_running, bgm,
                   sent, pub, quiet, aborted>>

\* What a call that may abort leaves behind.
Returned(fn, arg, r) ==
    /\ aborted' = r.abort
    /\ ret' = IF r.abort THEN [fn |-> "abort", arg |-> arg, val |-> 0]
              ELSE [fn |-> fn, arg |-> arg, val |-> r.rv]
    /\ logged' = <<>>
    /\ UNCHANGED <<v_safe, v_unsafe, bconf, bs, is, bg_unsafe_reason, isc, bsc, tmo, now,
                   mqtt_running, bgm, sent, pub, quiet>>

\* A direct call of batgw_i_issafe with any token value.
Call_issafe ==
    /\ ~aborted
    /\ \E tok \in Tokens :
        Returned("batgw_i_issafe", tok, batgw_i_issafe(tok, v_safe, v_unsafe))

Call_get_charge_da ==
    /\ ~aborted
    /\ \E tok \in Tokens :
        Returned("batgw_i_get_charge_da", tok,
                 batgw_i_get_charge_da(bs, bconf, tok, v_safe, v_unsafe))

Call_get_discharge_da ==
    /\ ~aborted
    /\ \E tok \in Tokens :
        Returned("batgw_i_get_discharge_da", tok,
                 batgw_i_get_discharge_da(bs, bconf, tok, v_safe, v_unsafe))

NextSafety ==
    \/ Call_get_safety
    \/ Call_issafe
    \/ Call_get_charge_da
    \/ Call_get_discharge_da

SpecSafety == InitSafety /\ [][NextSafety]_vars

(***************************************************************************)
(* Spec: the two drivers under the event loop.  Time is abstracted: a      *)
(* pending timer may fire at any moment.                                   *)
(***************************************************************************)

\* The answer to a PID poll: data[2..3] the PID, data[4..5] the value.
Pid(pid, lo, hi) == Frame(\H7EF, <<5, \H62, pid \div 256, pid % 256, lo, hi, 0, 0>>)

\* What the battery bus delivers: a broadcast frame, PID answers that make
\* the pack safe (25 and 30 degC, 3000 and 3010 mV, 400.0 V as le16 400,
\* 5000 W and 3000 W), one that makes it unsafe (60 degC), a frame of an
\* unknown id and a short frame.
BydFrames ==
    { Frame(\H444, <<\H90, 1, 0, 0, 0, 0, 0, 0>>),
      Pid(\H002F, 65, 0), Pid(\H0031, 70, 0), Pid(\H0031, 100, 0),
      Pid(\H002B, \HB8, \H0B), Pid(\H002D, \HC2, \H0B),
      Pid(\H0008, \H90, 1), Pid(\H000A, 50, 0), Pid(\H000E, 30, 0),
      Frame(\H123, Zeros),
      [can_id |-> \H444, len |-> 4, data |-> Zeros] }

\* What the inverter bus delivers: every id the driver knows and one it
\* does not, each with byte 0 equal to 0 and to 1, and a short frame.
InvFrames ==
    { Frame(id, <<b0, 0, 0, 0, 0, 0, 0, 0>>) :
        id \in {\H151, \H019, \H0D1, \H111, \H091, \H123}, b0 \in {0, 1} }
    \cup { [can_id |-> \H151, len |-> 4, data |-> <<1, 0, 0, 0, 0, 0, 0, 0>>] }

\* errno after a failed recv().
Errnos == {"EAGAIN", "EIO"}

\* The drivers only carry the verdict from batgw_i_get_safety to
\* batgw_i_get_*_da, so one draw of the two sentinels stands for all.
Init ==
    /\ v_safe = 1
    /\ v_unsafe = 2
    /\ bconf = batgw_b_config
    /\ bs = byd_b_dispatch(batgw_b_state0, batgw_b_config)
    /\ InitRest

\* The state a callback leaves behind.
Commit(g) ==
    /\ bs' = g.bs
    /\ is' = g.is
    /\ bg_unsafe_reason' = g.reason
    /\ isc' = g.isc
    /\ bsc' = g.bsc
    /\ tmo' = g.tmo
    /\ sent' = g.sent
    /\ logged' = g.logged
    /\ pub' = g.pub
    /\ aborted' = g.aborted
    /\ ret' = NoRet
    /\ UNCHANGED <<v_safe, v_unsafe, bconf, now, mqtt_running, bgm>>

\* Timer t is due: libevent takes it off the pending list and then runs
\* its callback from this state.
Fired(t) == [Cur EXCEPT !.tmo = evtimer_del(@, t)]

\* byd_can_recv is called when the battery socket is readable; the
\* frame read is one of frames.
Ev_byd_can_recv(frames) ==
    /\ ~aborted
    /\ \E frame \in frames :
        /\ Commit(byd_can_recv(Cur, frame))
        /\ quiet' = IF frame.len = 8 /\ frame.can_id \in BydBroadcastIds THEN 0 ELSE quiet

Ev_byd_can_recv_fail ==
    /\ ~aborted
    /\ \E errno \in Errnos : Commit(byd_can_recv_fail(Cur, errno))
    /\ UNCHANGED quiet

Ev_byd_can_wdog ==
    /\ ~aborted
    /\ evtimer_pending(tmo, "byd_can_wdog")
    /\ Commit(byd_can_wdog(Fired("byd_can_wdog")))
    /\ UNCHANGED quiet

Ev_byd_can_i_recv(frames) ==
    /\ ~aborted
    /\ \E frame \in frames, ub \in {0, 1} : Commit(byd_can_i_recv(Cur, frame, ub))
    /\ UNCHANGED quiet

Ev_byd_can_i_recv_fail ==
    /\ ~aborted
    /\ \E errno \in Errnos : Commit(byd_can_i_recv_fail(Cur, errno))
    /\ UNCHANGED quiet

Ev_byd_can_i_wdog ==
    /\ ~aborted
    /\ evtimer_pending(tmo, "byd_can_i_wdog")
    /\ Commit(byd_can_i_wdog(Fired("byd_can_i_wdog")))
    /\ UNCHANGED quiet

Ev_byd_can_i_2s ==
    /\ ~aborted
    /\ evtimer_pending(tmo, "byd_can_i_2s")
    /\ Commit(byd_can_i_2s(Fired("byd_can_i_2s")))
    /\ UNCHANGED quiet

Ev_byd_can_i_10s ==
    /\ ~aborted
    /\ evtimer_pending(tmo, "byd_can_i_10s")
    /\ Commit(byd_can_i_10s(Fired("byd_can_i_10s")))
    /\ UNCHANGED quiet

Ev_byd_can_i_60s ==
    /\ ~aborted
    /\ evtimer_pending(tmo, "byd_can_i_60s")
    /\ Commit(byd_can_i_60s(Fired("byd_can_i_60s")))
    /\ UNCHANGED quiet

\* The timer callbacks of the two drivers and the failing reads.
Timeouts ==
    \/ Ev_byd_can_recv_fail
    \/ Ev_byd_can_wdog
    \/ Ev_byd_can_i_recv_fail
    \/ Ev_byd_can_i_wdog
    \/ Ev_byd_can_i_2s
    \/ Ev_byd_can_i_10s
    \/ Ev_byd_can_i_60s

\* The battery bus of Spec: the pack shows it is alive and reports its
\* voltage, or sends what the driver ignores.
QuietPackFrames ==
    {f \in BydFrames : f.can_id \in {\H444, \H123}} \cup {Pid(\H0008, \H90, 1)}

Next ==
    \/ Ev_byd_can_recv(QuietPackFrames)
    \/ Ev_byd_can_i_recv(InvFrames)
    \/ Timeouts

Spec == Init /\ [][Next]_vars

(***************************************************************************)
(* SpecGate: the same event loop with every battery frame and an inverter  *)
(* that only sends 0x151 frames, so that the 2 s emitter runs over every   *)
(* pack state.                                                             *)
(***************************************************************************)

HelloFrames == {f \in InvFrames : f.can_id = \H151 /\ f.len = 8}

NextGate ==
    \/ Ev_byd_can_recv(BydFrames)
    \/ Ev_byd_can_i_recv(HelloFrames)
    \/ Timeouts

SpecGate == Init /\ [][NextGate]_vars

(***************************************************************************)
(* SpecTimed: the battery driver against the clock, in steps of one        *)
(* second.  A timer fires when its time is up, before the clock moves on.  *)
(***************************************************************************)

\* The clock stops here.
MaxNow == 12

Expired(t) == tmo[t] = 0

Tick ==
    /\ ~aborted
    /\ now < MaxNow
    /\ \A t \in Timers : ~Expired(t)
    /\ now' = now + 1
    /\ quiet' = quiet + 1
    /\ tmo' = [t \in Timers |-> IF evtimer_pending(tmo, t) THEN tmo[t] - 1 ELSE NotPending]
    /\ sent' = <<>>
    /\ logged' = <<>>
    /\ pub' = <<>>
    /\ ret' = NoRet
    /\ UNCHANGED <<v_safe, v_unsafe, bconf, bs, is, bg_unsafe_reason, isc, bsc,
                   mqtt_running, bgm, aborted>>

\* The frames of SpecTimed: a broadcast frame, the PID answers that make a
\* running pack safe, and a frame of an unknown id.
PackFrames ==
    { Frame(\H444, <<\H90, 1, 0, 0, 0, 0, 0, 0>>),
      Pid(\H002F, 65, 0), Pid(\H0031, 70, 0),
      Pid(\H002B, \HB8, \H0B), Pid(\H002D, \HC2, \H0B),
      Frame(\H123, Zeros) }

NextTimed ==
    \/ Ev_byd_can_recv(PackFrames)
    \/ Expired("byd_can_wdog") /\ Ev_byd_can_wdog
    \/ Tick
    \/ Call_get_safety

SpecTimed == Init /\ [][NextTimed]_vars


(***************************************************************************)
(* Claims about the safety supervisor, checked under SpecSafety.           *)
(***************************************************************************)

\* The eleven conditions of the verdict, stated on the pack state.
AllChecksPass ==
    /\ bs.bs_running # 0
    /\ BATGW_B_VALID_MIN_TEMP \in bs.bs_valid
    /\ BATGW_B_VALID_MAX_TEMP \in bs.bs_valid
    /\ bs.bs_min_temp_dc >= -250
    /\ bs.bs_max_temp_dc <= 500
    /\ bs.bs_min_temp_dc <= bs.bs_max_temp_dc
    /\ bs.bs_max_temp_dc - bs.bs_min_temp_dc < 150
    /\ bs.bs_min_cell_voltage_mv # 0
    /\ bs.bs_max_cell_voltage_mv # 0
    /\ bs.bs_min_cell_voltage_mv <= bs.bs_max_cell_voltage_mv
    /\ bs.bs_max_cell_voltage_mv - bs.bs_min_cell_voltage_mv < bconf.dev_cell_voltage_mv

\* C2: batgw_i_get_safety returns the safe sentinel if and only if the pack is
\* running, both temperature bits are set, -250 <= min_temp <= max_temp <= 500
\* with a spread below 150, and both cell extremes are reported, ordered and
\* closer than the configured deviation.  (The call does not change bs, so the
\* pack state after the call is the one it evaluated.)
C2_SafeIffAllChecks ==
    ret.fn = "batgw_i_get_safety" => ((ret.val = v_safe) <=> AllChecksPass)

\* C2 witnesses: a call that returned safe, reached with every check passing.
C2_Witness ==
    /\ ret.fn = "batgw_i_get_safety"
    /\ ret.val = v_safe
    /\ AllChecksPass

\* C3: the two sentinels differ; batgw_i_get_safety returns one of them;
\* batgw_i_issafe returns 1 only for the safe one and 0 only for the unsafe one,
\* and a call with any other token (also through batgw_i_get_charge_da and
\* batgw_i_get_discharge_da) aborts instead of returning.
C3_TwoSentinels ==
    /\ v_safe # v_unsafe
    /\ ret.fn = "batgw_i_get_safety" => ret.val \in {v_safe, v_unsafe}
    /\ ret.fn = "batgw_i_issafe" =>
        \/ ret.val = 1 /\ ret.arg = v_safe
        \/ ret.val = 0 /\ ret.arg = v_unsafe
    /\ ret.fn \in {"batgw_i_get_charge_da", "batgw_i_get_discharge_da"} =>
        /\ ret.arg \in {v_safe, v_unsafe}
        /\ ret.arg = v_unsafe => ret.val = 0
    /\ ret.fn = "abort" => ret.arg \notin {v_safe, v_unsafe}
    /\ aborted <=> ret.fn = "abort"

\* C3 witness: a third token value was passed and the process aborted.
C3_Witness ==
    /\ aborted
    /\ ret.fn = "abort"
    /\ ret.arg \notin {v_safe, v_unsafe}

\* C4: a zero-initialised token is never accepted as safe: batgw_i_issafe(0)
\* never returns 1.
C4_ZeroTokenNeverSafe ==
    ~(ret.fn = "batgw_i_issafe" /\ ret.arg = 0 /\ ret.val = 1)

\* C5: batgw_i_get_charge_da returns 0 whenever the reported maximum cell
\* voltage exceeds the configured maximum, and batgw_i_get_discharge_da returns
\* 0 whenever the reported minimum cell voltage is below the configured minimum,
\* also for the safe token and with power headroom.
C5_CellVoltageGate ==
    /\ (ret.fn = "batgw_i_get_charge_da"
            /\ bs.bs_max_cell_voltage_mv > bconf.max_cell_voltage_mv) => ret.val = 0
    /\ (ret.fn = "batgw_i_get_discharge_da"
            /\ bs.bs_min_cell_voltage_mv < bconf.min_cell_voltage_mv) => ret.val = 0

\* C5 witness: the charge envelope was asked with the safe token for a pack
\* that passes every check, has power headroom and a known voltage, but whose
\* maximum cell voltage is over the configured maximum.
C5_Witness ==
    /\ ret.fn = "batgw_i_get_charge_da"
    /\ ret.arg = v_safe
    /\ AllChecksPass
    /\ bs.bs_max_cell_voltage_mv > bconf.max_cell_voltage_mv
    /\ bs.bs_max_charge_w > 0
    /\ bs.bs_voltage_dv > 0
    /\ ret.val = 0

\* floor(min(manufacturer limit, configured limit) * 100 / voltage_dV), and 0
\* when the pack voltage is unknown or zero.
EnvelopeOf(manuf_w, conf_w) ==
    IF BATGW_B_VALID_VOLTAGE \notin bs.bs_valid \/ bs.bs_voltage_dv = 0 THEN 0
    ELSE IF manuf_w <= conf_w THEN (manuf_w * 100) \div bs.bs_voltage_dv
    ELSE (conf_w * 100) \div bs.bs_voltage_dv

\* C6: with the safe token and no cell-voltage limit violated, the charge
\* (discharge) envelope is floor(min(manufacturer W, configured W) * 100 /
\* voltage_dV), and it is 0 when the pack voltage was never set or is zero.
C6_EnvelopeValue ==
    /\ (ret.fn = "batgw_i_get_charge_da" /\ ret.arg = v_safe
            /\ ~(bs.bs_max_cell_voltage_mv > bconf.max_cell_voltage_mv))
        => ret.val = EnvelopeOf(bs.bs_max_charge_w, bconf.charge_w)
    /\ (ret.fn = "batgw_i_get_discharge_da" /\ ret.arg = v_safe
            /\ ~(bs.bs_min_cell_voltage_mv < bconf.min_cell_voltage_mv))
        => ret.val = EnvelopeOf(bs.bs_max_discharge_w, bconf.discharge_w)

\* C6 witness: a non-zero charge envelope in which the configured limit, the
\* smaller of the two, decided the value.
C6_Witness ==
    /\ ret.fn = "batgw_i_get_charge_da"
    /\ ret.arg = v_safe
    /\ bs.bs_max_charge_w > bconf.charge_w
    /\ ret.val > 0

(***************************************************************************)
(* Claims about the drivers.                                               *)
(***************************************************************************)

\* Some frame of out went to the inverter bus with an id in ids.
Emits(out, ids) ==
    \E i \in 1 .. Len(out) : out[i].can = "inverter" /\ out[i].frame.can_id \in ids

\* C1: whenever the 2 s emitter sends a 0x110 frame while the safety verdict
\* on the pack state is unsafe, the discharge field (bytes 4-5) and the
\* charge field (bytes 6-7) of the frame are zero.  The inverter callbacks
\* do not write the pack state, so the verdict on bs is the verdict at the
\* time of the emission.
C1_SafetyGating ==
    \A i \in 1 .. Len(sent) :
        ( /\ sent[i].can = "inverter"
          /\ sent[i].frame.can_id = \H110
          /\ batgw_safety_reason(bs, bconf) # SAFE )
        => /\ can_betoh16(sent[i].frame, 4) = 0
           /\ can_betoh16(sent[i].frame, 6) = 0

\* A 0x110 frame with both fields zero, sent after the battery watchdog
\* stopped a pack that is otherwise safe and would get non-zero currents.
C1_Witness ==
    /\ Emits(sent, {\H110})
    /\ bs.bs_running = 0
    /\ batgw_safety_reason(batgw_b_set_running(bs), bconf) = SAFE
    /\ batgw_get_safety_limited_da(bs, bs.bs_max_discharge_w, bconf.discharge_w) > 0
    /\ batgw_get_safety_limited_da(bs, bs.bs_max_charge_w, bconf.charge_w) > 0
    /\ \A i \in 1 .. Len(sent) :
        sent[i].frame.can_id = \H110 =>
            can_betoh16(sent[i].frame, 4) = 0 /\ can_betoh16(sent[i].frame, 6) = 0

\* The step is byd_can_recv reading frame.
BydRecvStep(frame) == Commit(byd_can_recv(Cur, frame))

Recognised(frame) == frame.len = 8 /\ frame.can_id \in BydBroadcastIds

\* C7: the pack is not running at the start; reading an 8-byte frame of a
\* recognised id marks it running and arms the watchdog with 10 s, and
\* nothing else marks it running; it stays running for exactly the 10 s
\* after the last such frame and is stopped once they have passed; and a
\* safety evaluation of a pack that is not running returns unsafe.
C7_PackLiveness ==
    /\ bs.bs_running = 0
    /\ [](bs.bs_running = 1 => quiet <= 10 /\ tmo["byd_can_wdog"] = 10 - quiet)
    /\ [](quiet > 10 => bs.bs_running = 0)
    /\ [](ret.fn = "batgw_i_get_safety" /\ bs.bs_running = 0 => ret.val = v_unsafe)
    /\ [][ /\ \A frame \in PackFrames :
                Recognised(frame) /\ BydRecvStep(frame)
                => bs'.bs_running = 1 /\ tmo'["byd_can_wdog"] = 10
           /\ bs.bs_running = 0 /\ bs'.bs_running = 1
                => \E frame \in PackFrames : Recognised(frame) /\ BydRecvStep(frame)
           /\ bs.bs_running = 1 /\ bs'.bs_running = 0 => quiet = 10 /\ quiet' = 10
         ]_vars

\* A safety evaluation that returns unsafe only because the watchdog has
\* stopped a pack whose other readings are all within limits.
C7_Witness ==
    /\ ret.fn = "batgw_i_get_safety"
    /\ ret.val = v_unsafe
    /\ bs.bs_running = 0
    /\ quiet >= 10
    /\ batgw_kv_get(bsc.kvs["BYD_KV_VOLTAGE"]) # INT_MIN
    /\ batgw_safety_reason(batgw_b_set_running(bs), bconf) = SAFE

\* The frame that starts the handshake: id 0x151 with byte 0 equal to 1.
Trigger(frame) == frame.len = 8 /\ frame.can_id = \H151 /\ Byte(frame, 0) = 1

\* The step is byd_can_i_recv reading frame.
InvRecvStep(frame) == \E ub \in {0, 1} : Commit(byd_can_i_recv(Cur, frame, ub))

\* C8: while the inverter driver has not started, a frame starts it only if
\* it is 0x151 with byte 0 equal to 1 and the pack is running; after any
\* other frame the driver is still not started, the inverter state (running
\* flag, contactor) and the timers are as before, and nothing was sent.
C8_StartupTrigger ==
    [][ \A frame \in InvFrames :
          isc.running = 0 /\ InvRecvStep(frame)
          => IF Trigger(frame) /\ bs.bs_running = 1
             THEN isc'.running = 1
             ELSE isc'.running = 0 /\ is' = is /\ tmo' = tmo /\ sent' = <<>>
      ]_vars

IvalTimers == {"byd_can_i_2s", "byd_can_i_10s", "byd_can_i_60s"}

NoIvalPending(tm) == \A t \in IvalTimers : ~evtimer_pending(tm, t)

\* The frames of the three interval emitters.
PeriodicIds == {\H110, \H150, \H1D0, \H210, \H190}

\* C9: the expiry of the inverter watchdog leaves the inverter stopped, the
\* contactor flag open and none of the three interval emitters pending; and
\* while none is pending, a step that sends one of their frames or makes
\* one of them pending is the handling of a handshake frame.
C9_WatchdogExpiry ==
    [][ /\ Ev_byd_can_i_wdog
            => /\ is'.is_running = 0
               /\ is'.is_contactor = 0
               /\ NoIvalPending(tmo')
        /\ NoIvalPending(tmo) /\ (Emits(sent', PeriodicIds) \/ ~NoIvalPending(tmo'))
            => \E frame \in InvFrames : Trigger(frame) /\ InvRecvStep(frame)
      ]_vars

\* The state right after an expiry that stopped emitters which had run.
C9_Witness ==
    /\ logged = <<"byd_can_i_wdog">>
    /\ batgw_kv_get(isc.kvs["BYD_CAN_KV_DISCHARGE_CURRENT"]) # INT_MIN
    /\ is.is_running = 0
    /\ is.is_contactor = 0
    /\ NoIvalPending(tmo)

\* C10: a frame handled right after the watchdog has stopped an inverter
\* whose handshake had been answered (the 2 s emitter has run), and that is
\* not the handshake frame, has no part in liveness: with id 0x019,
\* 0x0D1, 0x111 or 0x151 it leaves the inverter stopped and the watchdog
\* not pending, with id 0x091 it leaves the contactor flag as it was.
C10_PassiveAfterExpiry ==
    [][ \A frame \in InvFrames :
          ( /\ logged = <<"byd_can_i_wdog">>
            /\ batgw_kv_get(isc.kvs["BYD_CAN_KV_DISCHARGE_CURRENT"]) # INT_MIN
            /\ frame.len = 8
            /\ ~Trigger(frame)
            /\ InvRecvStep(frame) )
          => /\ frame.can_id \in {\H019, \H0D1, \H111, \H151}
                => is'.is_running = 0 /\ ~evtimer_pending(tmo', "byd_can_i_wdog")
             /\ frame.can_id = \H091 => is'.is_contactor = is.is_contactor
      ]_vars


(***************************************************************************)
(* SpecContactor: the event loop with an inverter that answers the         *)
(* handshake and then reports its own voltage in 0x091 frames, at, next to *)
(* and away from the 400.0 V the pack reports.                             *)
(***************************************************************************)

\* An 0x091 frame: be16 inverter voltage in dV at offset 0.
Inv091(idv) == can_htobe16(Frame(\H091, Zeros), 0, idv)

ContactorFrames ==
    { Frame(\H151, <<1, 0, 0, 0, 0, 0, 0, 0>>),
      Inv091(4000), Inv091(4020), Inv091(4030) }

NextContactor ==
    \/ Ev_byd_can_recv(QuietPackFrames)
    \/ Ev_byd_can_i_recv(ContactorFrames)
    \/ Timeouts

SpecContactor == Init /\ [][NextContactor]_vars

(***************************************************************************)
(* Claims about the inverter protocol, second part.                        *)
(***************************************************************************)

Abs(x) == IF x < 0 THEN -x ELSE x

\* C11: when the started inverter driver has handled an 0x091 frame with
\* inverter voltage idv, the contactor flag is closed exactly if the pack
\* voltage is known and idv is within 20 dV of it; with the pack voltage
\* unknown the flag is open.
C11_ContactorInference ==
    [][ \A frame \in ContactorFrames :
          (isc.running = 1 /\ frame.can_id = \H091 /\ InvRecvStep(frame))
          => ( is'.is_contactor = 1
               <=> /\ ISSET(bs.bs_valid, BATGW_B_VALID_VOLTAGE)
                   /\ Abs(can_betoh16(frame, 0) - bs.bs_voltage_dv)
                          <= BYD_HVS_VOLTAGE_OFFSET_DV )
      ]_vars

(***************************************************************************)
(* SpecHello: the event loop with a pack that comes alive and reports its  *)
(* temperatures and cell voltages, and an inverter that only sends 0x151   *)
(* frames.                                                                 *)
(***************************************************************************)

NextHello ==
    \/ Ev_byd_can_recv(PackFrames)
    \/ Ev_byd_can_i_recv(HelloFrames)
    \/ Timeouts

SpecHello == Init /\ [][NextHello]_vars

\* The can ids of the frames in out, in order.
IdsOf(out) == [k \in 1 .. Len(out) |-> out[k].frame.can_id]

\* What each interval emitter sends when called in the current state.  No
\* emitter changes what another reads to build its frames.
Sent2s == byd_can_i_2s(Cur).sent
Sent10s == byd_can_i_10s(Cur).sent
Sent60s == byd_can_i_60s(Cur).sent

\* C12: a handshake frame (0x151, byte 0 = 1) handled by a driver that is
\* started, or starts on it, with the rated energy known, sends in this
\* order: 0x250 (03 29 00 66, be16(rated Wh / 100), 02 09), 0x290
\* (06 37 10 D9 00 00 00 00), the vendor packet on 0x2D0, the product packets
\* on 0x3D0, then the frames of one run of the 2 s emitter (one 0x110), of
\* one run of the 10 s emitter and of one run of the 60 s emitter (one
\* 0x190); afterwards each emitter is pending with its own period.
C12_HandshakeOrdering ==
    [][ \A frame \in HelloFrames :
          ( /\ Trigger(frame)
            /\ isc.running = 1 \/ bs.bs_running = 1
            /\ batgw_i_get_rated_capacity_wh(bs).rv = 0
            /\ InvRecvStep(frame) )
          => LET wh100 == batgw_i_get_rated_capacity_wh(bs).v \div 100
                 n == Len(sent')
             IN  /\ n >= 9
                 /\ sent'[1].frame = Frame(\H250, <<3, \H29, 0, \H66,
                                       (wh100 \div 256) % 256, wh100 % 256, 2, 9>>)
                 /\ sent'[2].frame = Frame(\H290, <<6, \H37, \H10, \HD9, 0, 0, 0, 0>>)
                 /\ SubSeq(IdsOf(sent'), 3, 7) = <<\H2D0, \H3D0, \H3D0, \H3D0, \H3D0>>
                 /\ SubSeq(sent', 8, n) = Sent2s \o Sent10s \o Sent60s
                 /\ IdsOf(Sent2s) = <<\H110>>
                 /\ IdsOf(Sent60s) = <<\H190>>
                 /\ \A k \in 1 .. Len(Sent10s) :
                        Sent10s[k].frame.can_id \in {\H150, \H1D0, \H210}
                 /\ \A k \in 1 .. n : sent'[k].can = "inverter"
                 /\ tmo'["byd_can_i_2s"] = byd_2s
                 /\ tmo'["byd_can_i_10s"] = byd_10s
                 /\ tmo'["byd_can_i_60s"] = byd_60s
      ]_vars

\* The state right after a handshake in which the 10 s emitter sent both
\* the 0x1D0 and the 0x210 frame.
C12_Witness ==
    /\ Len(sent) = 11
    /\ IdsOf(sent) = <<\H250, \H290, \H2D0, \H3D0, \H3D0, \H3D0, \H3D0,
                       \H110, \H1D0, \H210, \H190>>
    /\ isc.running = 1
    /\ \A t \in IvalTimers : evtimer_pending(tmo, t)

(***************************************************************************)
(* SpecStr: byd_can_i_send_str called on its own, with every string of     *)
(* two letters up to MaxStr bytes (terminator included) and the two        *)
(* strings the driver sends.                                               *)
(***************************************************************************)

\* The longest string tried, terminator included.
MaxStr == 15

\* NUL-terminated strings: sizeof(str) bytes, the last one 0, none before.
StrInputs ==
    { Append(body, 0) : body \in UNION { [1 .. n -> {65, 66}] : n \in 0 .. (MaxStr - 1) } }
    \cup {byd_hvs_vendor, byd_hvs_product}

\* Both drivers attached and dispatched, at clock reading t, with the
\* broker session open (m = 1) or not, and r the record of the last call.
InitWith(t, m, r) ==
    /\ v_safe = 1
    /\ v_unsafe = 2
    /\ bconf = batgw_b_config
    /\ bs = byd_b_dispatch(batgw_b_state0, batgw_b_config)
    /\ is = batgw_i_state0
    /\ bg_unsafe_reason = NULL
    /\ isc = byd_can_i_attach
    /\ bsc = byd_b_attach
    /\ tmo = NoTimers
    /\ now = t
    /\ mqtt_running = m
    /\ bgm = batgw_mqtt_session(m)
    /\ sent = <<>>
    /\ logged = <<>>
    /\ pub = <<>>
    /\ quiet = 0
    /\ aborted = FALSE
    /\ ret = r

\* The arguments of the call to come are drawn first.
InitStr ==
    \E id \in {\H2D0, \H3D0}, str \in StrInputs :
        InitWith(0, 0, [fn |-> "none", arg |-> [id |-> id, str |-> str], val |-> 0])

\* byd_can_i_send_str(sc, id, str, sizeof(str))
Call_byd_can_i_send_str ==
    /\ ret.fn = "none"
    /\ sent' = byd_can_i_send_str(Cur, ret.arg.id, ret.arg.str, 0).sent
    /\ ret' = [ret EXCEPT !.fn = "byd_can_i_send_str"]
    /\ UNCHANGED <<v_safe, v_unsafe, bconf, bs, is, bg_unsafe_reason, isc, bsc, tmo, now,
                   mqtt_running, bgm, logged, pub, quiet, aborted>>

NextStr == Call_byd_can_i_send_str

SpecStr == InitStr /\ [][NextStr]_vars

\* Byte j (from 1) of the concatenation of bytes 1-7 of the frames in out.
Payload(out, j) == out[((j - 1) \div 7) + 1].frame.data[((j - 1) % 7) + 2]

\* C13: byd_can_i_send_str on a NUL-terminated string of n bytes sends
\* ceil(n / 7) frames of 8 bytes on the given id, byte 0 counting 0, 1, 2,
\* ... in the order sent; bytes 1-7 of the frames, concatenated in that
\* order, are the n bytes of the string followed by zeros only; the vendor
\* string gives the one packet 00 42 59 44 00 00 00 00.
C13_StringChunking ==
    ret.fn = "byd_can_i_send_str"
    => LET str == ret.arg.str
           n == Len(str)
           m == (n + 6) \div 7
       IN  /\ Len(sent) = m
           /\ \A k \in 1 .. m :
                /\ sent[k].can = "inverter"
                /\ sent[k].frame.can_id = ret.arg.id
                /\ sent[k].frame.len = 8
                /\ Len(sent[k].frame.data) = 8
                /\ sent[k].frame.data[1] = k - 1
           /\ \A j \in 1 .. (7 * m) :
                Payload(sent, j) = IF j <= n THEN str[j] ELSE 0
           /\ str = <<66, 89, 68, 0>>
                => sent[1].frame.data = <<0, \H42, \H59, \H44, 0, 0, 0, 0>>

\* The product string has been sent: 24 bytes in four packets, the last
\* one padded.
C13_Witness ==
    /\ ret.fn = "byd_can_i_send_str"
    /\ ret.arg.str = byd_hvs_product
    /\ Len(sent) = 4
    /\ sent[4].frame.data = <<3, 86, 83, 0, 0, 0, 0, 0>>

(***************************************************************************)
(* Claims about the contents of the periodic frames.                       *)
(***************************************************************************)

\* C14: every 0x110 frame sent carries, as be16, in bytes 0-1 the pack's
\* maximum voltage less 20 dV and in bytes 2-3 its minimum voltage plus
\* 20 dV, the two being what byd_b_dispatch passed to
\* batgw_b_set_max_voltage_dv (4410) and batgw_b_set_min_voltage_dv (3800).
C14_VoltageLimits ==
    \A k \in 1 .. Len(sent) :
        sent[k].frame.can_id = \H110
        => /\ can_betoh16(sent[k].frame, 0) = 4410 - BYD_HVS_VOLTAGE_OFFSET_DV
           /\ can_betoh16(sent[k].frame, 2) = 3800 + BYD_HVS_VOLTAGE_OFFSET_DV

\* C15: every 0x210 frame sent carries, as be16, the pack's maximum
\* temperature in bytes 0-1 and its minimum temperature in bytes 2-3, and
\* is sent only while both temperatures are present.
C15_TempFrame ==
    \A k \in 1 .. Len(sent) :
        sent[k].frame.can_id = \H210
        => /\ ISSET(bs.bs_valid, BATGW_B_VALID_MIN_TEMP)
           /\ ISSET(bs.bs_valid, BATGW_B_VALID_MAX_TEMP)
           /\ can_betoh16(sent[k].frame, 0) = bs.bs_max_temp_dc % 65536
           /\ can_betoh16(sent[k].frame, 2) = bs.bs_min_temp_dc % 65536

(***************************************************************************)
(* SpecKv: batgw_kv_update called on one key of the inverter driver        *)
(* against the monotonic clock, in steps of one second from 0, with the    *)
(* broker session open or not.                                             *)
(***************************************************************************)

\* The clock stops here: two publishes 10 s apart fit, the first no
\* earlier than 10 s after the key was initialised with kv_updated = 0.
MaxKvNow == 21

KvKey == "BYD_CAN_KV_TEMP"

KvValues == {250, 255}

\* The last call and the one before it, if any: the value passed and
\* whether batgw_kv_publish was called (1) or not (0).
KvCall(v, published, before) ==
    [fn |-> "batgw_kv_update", arg |-> v, val |-> IF published THEN 1 ELSE 0,
     prev |-> before]

InitKv ==
    \E m \in {0, 1} : InitWith(0, m, [fn |-> "none", arg |-> 0, val |-> 0, prev |-> <<>>])

\* batgw_kv_update(bg, "inverter", &sc->kvs[KvKey], v)
KvUpdate(v) ==
    LET g == byd_can_i_kv_update(Cur, KvKey, v)
        r == batgw_kv_update(isc.kvs[KvKey], v, now)
    IN  /\ isc' = g.isc
        /\ pub' = g.pub
        /\ ret' = KvCall(v, r.publish,
                         IF ret.fn = "none" THEN <<>>
                         ELSE <<[arg |-> ret.arg, val |-> ret.val]>>)
        /\ UNCHANGED <<v_safe, v_unsafe, bconf, bs, is, bg_unsafe_reason, bsc, tmo, now,
                       mqtt_running, bgm, sent, logged, quiet, aborted>>

Call_batgw_kv_update == \E v \in KvValues : KvUpdate(v)

\* A second passes.
KvTick ==
    /\ now < MaxKvNow
    /\ now' = now + 1
    /\ pub' = <<>>
    /\ UNCHANGED <<v_safe, v_unsafe, bconf, bs, is, bg_unsafe_reason, isc, bsc, tmo,
                   mqtt_running, bgm, sent, logged, quiet, ret, aborted>>

NextKv ==
    \/ Call_batgw_kv_update
    \/ KvTick

SpecKv == InitKv /\ [][NextKv]_vars

(***************************************************************************)
(* Claims about the key/value store.                                       *)
(***************************************************************************)

\* The key SpecKv updates.
TheKv == isc.kvs[KvKey]

SweepStart == 100
MaxSweepNow == 110

\* Battery frames that update keys: the pack voltage (two values), the
\* temperatures pack[0..5] and the cell voltages cell[123..125].
SweepPackFrames ==
    { Frame(\H444, <<\H90, 1, 0, 0, 0, 0, 0, 0>>),
      Frame(\H444, <<\H91, 1, 0, 0, 0, 0, 0, 0>>),
      Frame(\H43C, <<0, 60, 61, 62, 63, 64, 65, 0>>),
      Frame(\H43D, <<41, \HB8, \H0B, \HB9, \H0B, \HBA, \H0B, 0>>) }

\* Inverter frames: the handshake and the inverter's own voltage.
SweepInvFrames == { Frame(\H151, <<1, 0, 0, 0, 0, 0, 0, 0>>), Inv091(4000) }

InitSweep == InitWith(SweepStart, 0, NoRet)

\* What a callback of the broker session leaves behind, but for pub.
MqttStep(m, fn, arg) ==
    /\ mqtt_running' = m.running
    /\ bgm' = BgmOf(m)
    /\ aborted' = m.exit
    /\ sent' = <<>>
    /\ logged' = <<>>
    /\ ret' = [fn |-> fn, arg |-> arg, val |-> 0]
    /\ UNCHANGED <<v_safe, v_unsafe, bconf, bs, is, bg_unsafe_reason, isc, bsc, tmo, now,
                   quiet>>

\* The message batgw_mqtt_on_connect publishes: retained, on <topic>/LWT.
Online ==
    mqtt_publish("", "LWT", 0, BATGW_MQTT_TOPIC \o "/LWT",
                 <<"O", "n", "l", "i", "n", "e">>, 1)

\* The reconnect timer fires: batgw_mqtt_to_reconnect.
Ev_batgw_mqtt_to_reconnect(reqs) ==
    /\ ~aborted
    /\ bgm.ev_to_reconnect
    /\ \E req \in reqs :
        MqttStep(batgw_mqtt_to_reconnect(CurMqtt, req), "batgw_mqtt_to_reconnect", req)
    /\ pub' = <<>>

\* The resolver answers: batgw_mqtt_addrinfo.
Ev_batgw_mqtt_addrinfo(errcodes, answers, fails) ==
    /\ ~aborted
    /\ bgm.req
    /\ \E errcode \in errcodes, n \in 1 .. MaxAddr, outs \in [1 .. MaxAddr -> answers],
          fail \in fails :
        MqttStep(batgw_mqtt_addrinfo(CurMqtt, errcode, n, outs, fail),
                 "batgw_mqtt_addrinfo", errcode)
    /\ pub' = <<>>

\* The socket of a connect() in progress is writable: batgw_mqtt_connected_ev.
Ev_batgw_mqtt_connected_ev ==
    /\ ~aborted
    /\ bgm.ev_wr = "connecting"
    /\ \E error \in {"getsockopt", "EINPROGRESS", "0", "ECONNREFUSED"},
          outs \in [1 .. MaxAddr -> ConnectAnswers], fail \in ConnectedFailures :
        MqttStep(batgw_mqtt_connected_ev(CurMqtt, error, outs, fail),
                 "batgw_mqtt_connected_ev", error)
    /\ pub' = <<>>

\* The broker socket is readable: batgw_mqtt_rd.  A session gets one
\* CONNACK.  After "Online" is published batgw_mqtt_on_connect marks the
\* session running and the sweep runs at once, in that order.
Ev_batgw_mqtt_rd(answers) ==
    /\ ~aborted
    /\ bgm.ev_rd = "added"
    /\ \E rd \in answers :
        /\ rd = "CONNACK" => mqtt_running = 0
        /\ MqttStep(batgw_mqtt_rd(CurMqtt, rd), "batgw_mqtt_rd", rd)
        /\ pub' = IF rd # "CONNACK" THEN <<>>
                  ELSE IF bgm.publish_rv = -1 THEN <<Online>>
                  ELSE <<Online>> \o (batgw_mqtt_teleperiod(Cur).pub)'

\* The broker socket is writable: batgw_mqtt_wr.
Ev_batgw_mqtt_wr ==
    /\ ~aborted
    /\ bgm.ev_wr = "added"
    /\ \E wr \in WriteAnswers, more \in BOOLEAN :
        MqttStep(batgw_mqtt_wr(CurMqtt, wr, more), "batgw_mqtt_wr", wr)
    /\ pub' = <<>>

\* The library asks for its timeout: batgw_mqtt_want_timeout.
Ev_batgw_mqtt_want_timeout ==
    /\ ~aborted
    /\ bgm.ev_to = "new"
    /\ MqttStep(batgw_mqtt_want_timeout(CurMqtt), "batgw_mqtt_want_timeout", 0)
    /\ pub' = <<>>

\* The library's timeout fires: batgw_mqtt_to.
Ev_batgw_mqtt_to ==
    /\ ~aborted
    /\ bgm.ev_to = "added"
    /\ \E ping \in BOOLEAN, again \in BOOLEAN :
        MqttStep(batgw_mqtt_to(CurMqtt, ping, again), "batgw_mqtt_to", 0)
    /\ pub' = <<>>

\* The teleperiod timer fires: batgw_mqtt_teleperiod re-arms it and sweeps.
Ev_batgw_mqtt_teleperiod ==
    /\ ~aborted
    /\ bgm.ev_to_teleperiod
    /\ Commit(batgw_mqtt_teleperiod(Cur))
    /\ UNCHANGED quiet

\* The client library starts or stops refusing messages.
Ev_mqtt_publish_rv ==
    /\ ~aborted
    /\ bgm' = [bgm EXCEPT !.publish_rv = -1 - @]
    /\ sent' = <<>>
    /\ logged' = <<>>
    /\ pub' = <<>>
    /\ ret' = NoRet
    /\ UNCHANGED <<v_safe, v_unsafe, bconf, bs, is, bg_unsafe_reason, isc, bsc, tmo, now,
                   mqtt_running, quiet, aborted>>

\* Ten seconds pass.
SweepTick ==
    /\ now < MaxSweepNow
    /\ now' = now + 10
    /\ sent' = <<>>
    /\ logged' = <<>>
    /\ pub' = <<>>
    /\ ret' = NoRet
    /\ UNCHANGED <<v_safe, v_unsafe, bconf, bs, is, bg_unsafe_reason, isc, bsc, tmo,
                   mqtt_running, bgm, quiet, aborted>>

NextSweep ==
    \/ Ev_byd_can_recv(SweepPackFrames)
    \/ Ev_byd_can_i_recv(SweepInvFrames)
    \/ Ev_batgw_mqtt_to_reconnect({"req"})
    \/ Ev_batgw_mqtt_addrinfo({0}, {"connected"}, {""})
    \/ Ev_batgw_mqtt_rd({"CONNACK", "0"})
    \/ Ev_batgw_mqtt_teleperiod
    \/ SweepTick

SpecSweep == InitSweep /\ [][NextSweep]_vars

\* Every key of the two drivers: its scope, its name and its struct batgw_kv.
AllSlots ==
    { [scope |-> "battery", key |-> k, kv |-> bsc.kvs[k]] : k \in BYD_KVS }
    \cup { [scope |-> "battery", key |-> ArrSlot("pack", i), kv |-> KvAt("pack", bsc.pack, i)] :
             i \in 0 .. (NPack - 1) }
    \cup { [scope |-> "battery", key |-> ArrSlot("cell", i), kv |-> KvAt("cell", bsc.cell, i)] :
             i \in 0 .. (bsc.ncell - 1) }
    \cup { [scope |-> "inverter", key |-> k, kv |-> isc.kvs[k]] : k \in BYD_CAN_KVS }

\* The positions in out of the messages for a key.
MessagesFor(out, scope, key) ==
    {i \in 1 .. Len(out) : out[i].scope = scope /\ out[i].key = key}

\* C18: while the broker session runs, a teleperiod sweep publishes every
\* key of the battery and of the inverter driver whose value is not
\* INT_MIN, once and with that value, whatever its last-published time,
\* and publishes nothing for a key that was never set; so a value that an
\* update stored without publishing is published by the next sweep.
C18_TeleperiodSweep ==
    [][ (Ev_batgw_mqtt_teleperiod \/ (Ev_batgw_mqtt_rd({"CONNACK"}) /\ mqtt_running' = 1))
        => \A slot \in AllSlots :
             LET ms == MessagesFor(pub', slot.scope, slot.key) IN
             IF slot.kv.kv_v = INT_MIN THEN ms = {}
             ELSE /\ Cardinality(ms) = 1
                  /\ \A i \in ms : /\ pub'[i].v = slot.kv.kv_v
                                   /\ pub'[i].payload = batgw_kv_payload(slot.kv)
      ]_vars

\* A sweep has just published the pack voltage 401 that was stored within
\* 10 s of the last publish (kv_updated is the clock reading, so the
\* update was throttled), next to keys of both drivers and arrays.
C18_Witness ==
    /\ mqtt_running = 1
    /\ bsc.kvs["BYD_KV_VOLTAGE"].kv_v = 401
    /\ bsc.kvs["BYD_KV_VOLTAGE"].kv_updated = now
    /\ \E i \in 1 .. Len(pub) :
          pub[i].key = "BYD_KV_VOLTAGE" /\ pub[i].v = 401 /\ pub[i].payload = <<"4", "0", "1">>
    /\ \E i \in 1 .. Len(pub) : pub[i].key = "cell[125]"
    /\ \E i \in 1 .. Len(pub) : pub[i].key = "BYD_CAN_KV_RECV_VOLTAGE"
    /\ Len(pub) > 10

-----------------------------------------------------------------------------
\* SpecFmt: batgw_kv_publish as a function of the stored value and the
\* precision of the key.  The value and the precision are drawn first, the
\* call is applied once.

INT_MAX == -(INT_MIN + 1)

\* Stored values: around zero, around each power of ten, and the ends of int
\* (the never-set sentinel INT_MIN is not a stored value).
FmtValues ==
    {-12345, -10000, -9999, -1000, -105, -100, -99, -10, -9, -5, -1, 0,
     1, 5, 9, 10, 99, 100, 105, 1000, 9999, 10000, 12345,
     INT_MAX, -INT_MAX}

FmtPrecisions == 0 .. (Len(divs) - 1)

FmtKv(v, p) == [batgw_kv_init("fmt", "KV_T_VOLTAGE", p) EXCEPT !.kv_v = v]

InitFmt ==
    \E v \in FmtValues, p \in FmtPrecisions, m \in {0, 1} :
        InitWith(0, m, [fn |-> "none", arg |-> [v |-> v, p |-> p], val |-> 0])

Call_batgw_kv_publish ==
    /\ ret.fn = "none"
    /\ pub' = batgw_kv_publish(pub, "battery", "fmt", FmtKv(ret.arg.v, ret.arg.p))
    /\ ret' = [ret EXCEPT !.fn = "batgw_kv_publish"]
    /\ UNCHANGED <<v_safe, v_unsafe, bconf, bs, is, bg_unsafe_reason, isc, bsc,
                   tmo, now, mqtt_running, bgm, sent, logged, quiet, aborted>>

NextFmt == Call_batgw_kv_publish

SpecFmt == InitFmt /\ [][NextFmt]_vars

IsDigit(c) == \E d \in 0 .. 9 : Digit(d) = c

DigitVal(c) == CHOOSE d \in 0 .. 9 : Digit(d) = c

RECURSIVE ParseU(_)
\* The number a string of decimal digits denotes.
ParseU(s) ==
    IF s = <<>> THEN 0
    ELSE 10 * ParseU(SubSeq(s, 1, Len(s) - 1)) + DigitVal(s[Len(s)])

\* The payload without its minus sign.
Unsigned(s) == IF s # <<>> /\ s[1] = "-" THEN Tail(s) ELSE s

\* Number of characters of the whole part of a payload with p decimals.
WholeLen(s, p) == Len(Unsigned(s)) - (IF p > 0 THEN p + 1 ELSE 0)

\* An optional minus sign, one or more digits, and for p > 0 a dot and
\* exactly p digits.
WellFormed(s, p) ==
    LET u == Unsigned(s)
        w == WholeLen(s, p)
    IN  /\ w >= 1
        /\ \A k \in 1 .. w : IsDigit(u[k])
        /\ p > 0 => /\ u[w + 1] = "."
                    /\ \A k \in (w + 2) .. Len(u) : IsDigit(u[k])

\* The payload read back as a fixed-point number with p decimals.
ParseFixed(s, p) ==
    LET u == Unsigned(s)
        w == WholeLen(s, p)
        mag == ParseU(SubSeq(u, 1, w)) * divs[p + 1]
               + (IF p > 0 THEN ParseU(SubSeq(u, w + 2, Len(u))) ELSE 0)
    IN  IF u # s THEN -mag ELSE mag

\* C19: for every stored value other than the never-set sentinel and every
\* precision 0..4, the payload batgw_kv_publish produces is an optional minus
\* sign, the whole part and (for a precision above 0) a dot followed by
\* exactly that many digits, and read back as a fixed-point number it is the
\* stored value.
C19_FormatRoundTrip ==
    (ret.fn = "batgw_kv_publish" /\ mqtt_running = 1) =>
        /\ Len(pub) = 1
        /\ WellFormed(pub[1].payload, ret.arg.p)
        /\ ParseFixed(pub[1].payload, ret.arg.p) = ret.arg.v

\* -5 at precision 1 has been published as "-0.5".
C19_Witness ==
    /\ ret.fn = "batgw_kv_publish"
    /\ ret.arg = [v |-> -5, p |-> 1]
    /\ Len(pub) = 1
    /\ pub[1].payload = <<"-", "0", ".", "5">>
    /\ pub[1].topic = "battery-gateway/battery/fmt/voltage"

-----------------------------------------------------------------------------
\* SpecAcc: a pack-state setter followed at once by its accessor, called in
\* the state the attach left and in the state an earlier call left.

MaxCalls == 2

\* The setters of the pack state that have an accessor of their own.
AccSetters ==
    {"batgw_b_set_soc_c_pct", "batgw_b_set_voltage_dv", "batgw_b_set_current_da",
     "batgw_b_set_min_temp_dc", "batgw_b_set_max_temp_dc",
     "batgw_b_set_avg_temp_dc", "batgw_b_set_rated_capacity_ah",
     "batgw_b_set_min_voltage_dv", "batgw_b_set_max_voltage_dv"}

\* The setters whose accessor tests the stored value instead of a bit.
AccNonZero ==
    {"batgw_b_set_rated_capacity_ah", "batgw_b_set_min_voltage_dv",
     "batgw_b_set_max_voltage_dv"}

\* Arguments: int for the current and the temperatures, unsigned int for
\* the others.
AccArgs(name) ==
    IF name \in {"batgw_b_set_current_da", "batgw_b_set_min_temp_dc",
                 "batgw_b_set_max_temp_dc", "batgw_b_set_avg_temp_dc"}
    THEN {-400, 0, 250}
    ELSE {0, 1, 4410}

AccSet(name, s, v) ==
    CASE name = "batgw_b_set_soc_c_pct" -> batgw_b_set_soc_c_pct(s, v)
      [] name = "batgw_b_set_voltage_dv" -> batgw_b_set_voltage_dv(s, v)
      [] name = "batgw_b_set_current_da" -> batgw_b_set_current_da(s, v)
      [] name = "batgw_b_set_min_temp_dc" -> batgw_b_set_min_temp_dc(s, v)
      [] name = "batgw_b_set_max_temp_dc" -> batgw_b_set_max_temp_dc(s, v)
      [] name = "batgw_b_set_avg_temp_dc" -> batgw_b_set_avg_temp_dc(s, v)
      [] name = "batgw_b_set_rated_capacity_ah" -> batgw_b_set_rated_capacity_ah(s, v)
      [] name = "batgw_b_set_min_voltage_dv" -> batgw_b_set_min_voltage_dv(s, v)
      [] name = "batgw_b_set_max_voltage_dv" -> batgw_b_set_max_voltage_dv(s, v)

AccGet(name, s) ==
    CASE name = "batgw_b_set_soc_c_pct" -> batgw_i_get_soc_cpct(s)
      [] name = "batgw_b_set_voltage_dv" -> batgw_i_get_voltage_dv(s)
      [] name = "batgw_b_set_current_da" -> batgw_i_get_current_da(s)
      [] name = "batgw_b_set_min_temp_dc" -> batgw_i_get_min_temp_dc(s)
      [] name = "batgw_b_set_max_temp_dc" -> batgw_i_get_max_temp_dc(s)
      [] name = "batgw_b_set_avg_temp_dc" -> batgw_i_get_avg_temp_dc(s)
      [] name = "batgw_b_set_rated_capacity_ah" -> batgw_i_get_rated_capacity_ah(s)
      [] name = "batgw_b_set_min_voltage_dv" -> batgw_i_get_min_voltage_dv(s)
      [] name = "batgw_b_set_max_voltage_dv" -> batgw_i_get_max_voltage_dv(s)

InitAcc == InitWith(0, 0, [fn |-> "none", arg |-> 0, val |-> Absent, n |-> 0])

\* One setter call and the call of its accessor that follows it.
Call_setter(name, v) ==
    /\ ret.n < MaxCalls
    /\ bs' = AccSet(name, bs, v)
    /\ ret' = [fn |-> name, arg |-> v, val |-> AccGet(name, bs'), n |-> ret.n + 1]
    /\ UNCHANGED <<v_safe, v_unsafe, bconf, is, bg_unsafe_reason, isc, bsc, tmo,
                   now, mqtt_running, bgm, sent, logged, pub, quiet, aborted>>

NextAcc == \E name \in AccSetters : \E v \in AccArgs(name) : Call_setter(name, v)

SpecAcc == InitAcc /\ [][NextAcc]_vars

\* C20 as stated: after every pack-state setter, with every argument, the
\* accessor called next returns present with the value just set.
C20_SetThenGetAny ==
    ret.fn \in AccSetters => ret.val = Present(ret.arg)

\* C20: after a setter of SoC, voltage, current or a minimum, maximum or
\* average temperature, with every argument, and after a setter of the rated
\* capacity in Ah or of the minimum or maximum pack voltage with every
\* argument other than 0, the accessor called next returns present with the
\* value just set; after those three setters with 0 it returns absent.
C20_SetThenGet ==
    ret.fn \in AccSetters =>
        IF ret.fn \in AccNonZero /\ ret.arg = 0 THEN ret.val.rv = -1
        ELSE ret.val = Present(ret.arg)

\* The current has been set to -40.0 A after an earlier call and read back.
C20_Witness ==
    /\ ret.fn = "batgw_b_set_current_da"
    /\ ret.n = MaxCalls
    /\ ret.arg = -400
    /\ ret.val = Present(-400)
    /\ ISSET(bs.bs_valid, BATGW_B_VALID_CURRENT)
    /\ bs.bs_current_da = -400

-----------------------------------------------------------------------------
\* SpecAvg: batgw_i_get_avg_temp_dc over pack states with every combination
\* of the three temperature bits.

\* A pack state with the given temperatures set, <<>> for one never set.
TempsOf(tmin, tmax, tavg) ==
    LET s1 == IF tmin = <<>> THEN batgw_b_state0
              ELSE batgw_b_set_min_temp_dc(batgw_b_state0, tmin[1])
        s2 == IF tmax = <<>> THEN s1 ELSE batgw_b_set_max_temp_dc(s1, tmax[1])
    IN  IF tavg = <<>> THEN s2 ELSE batgw_b_set_avg_temp_dc(s2, tavg[1])

AvgInputs ==
    { TempsOf(tmin, tmax, tavg) :
        tmin \in Opt({-405, -5, 0, 250}), tmax \in Opt({-400, -5, 255}),
        tavg \in Opt({-1, 0, 300}) }

InitAvg ==
    /\ v_safe = 1
    /\ v_unsafe = 2
    /\ bconf = batgw_b_config
    /\ bs \in AvgInputs
    /\ InitRest

Call_get_avg_temp_dc ==
    /\ ret.fn = "none"
    /\ ret' = [fn |-> "batgw_i_get_avg_temp_dc", arg |-> 0,
               val |-> batgw_i_get_avg_temp_dc(bs)]
    /\ UNCHANGED <<v_safe, v_unsafe, bconf, bs, is, bg_unsafe_reason, isc, bsc,
                   tmo, now, mqtt_running, bgm, sent, logged, pub, quiet, aborted>>

NextAvg == Call_get_avg_temp_dc

SpecAvg == InitAvg /\ [][NextAvg]_vars

\* C21: batgw_i_get_avg_temp_dc returns the stored average when the avg bit
\* is set; the derived value min + (max - min)/2 exactly when the avg bit is
\* unset and both the min and the max bit are set; absent in every other
\* case.
C21_AvgTemp ==
    ret.fn = "batgw_i_get_avg_temp_dc" =>
        IF ISSET(bs.bs_valid, BATGW_B_VALID_AVG_TEMP)
        THEN ret.val = Present(bs.bs_avg_temp_dc)
        ELSE IF /\ ISSET(bs.bs_valid, BATGW_B_VALID_MIN_TEMP)
                /\ ISSET(bs.bs_valid, BATGW_B_VALID_MAX_TEMP)
        THEN ret.val = Present(bs.bs_min_temp_dc
                               + CDiv(bs.bs_max_temp_dc - bs.bs_min_temp_dc, 2))
        ELSE ret.val.rv = -1

\* With min 0.0, max -0.5 and no average stored the accessor has returned
\* the derived -0.2.
C21_Witness ==
    /\ ret.fn = "batgw_i_get_avg_temp_dc"
    /\ bs.bs_valid = {BATGW_B_VALID_MIN_TEMP, BATGW_B_VALID_MAX_TEMP}
    /\ bs.bs_min_temp_dc = 0
    /\ bs.bs_max_temp_dc = -5
    /\ ret.val = Present(-2)

-----------------------------------------------------------------------------
\* C22: batgw_b_set_max_voltage_dv stores its argument as the maximum pack
\* voltage and leaves the minimum and every other field of the pack state
\* alone: after set_min_voltage_dv(a) and set_max_voltage_dv(b), in either
\* order, get_min_voltage_dv returns a and get_max_voltage_dv returns b
\* (a and b other than 0, the value the accessors take for never set).
C22_MinMaxVoltage ==
    [][ /\ {ret.fn, ret'.fn} = {"batgw_b_set_min_voltage_dv", "batgw_b_set_max_voltage_dv"}
        /\ ret.arg # 0
        /\ ret'.arg # 0
        => LET a == IF ret.fn = "batgw_b_set_min_voltage_dv" THEN ret.arg ELSE ret'.arg
               b == IF ret.fn = "batgw_b_set_max_voltage_dv" THEN ret.arg ELSE ret'.arg
           IN  /\ batgw_i_get_min_voltage_dv(bs') = Present(a)
               /\ batgw_i_get_max_voltage_dv(bs') = Present(b)
               /\ ret'.fn = "batgw_b_set_max_voltage_dv" =>
                      [bs' EXCEPT !.bs_max_voltage_dv = bs.bs_max_voltage_dv] = bs
      ]_vars

-----------------------------------------------------------------------------
(***************************************************************************)
(* SpecMqtt: the broker session against a resolver, sockets and a client   *)
(* library that may fail at every call, with the battery driver reading    *)
(* pack voltages.  A pending timer may fire at any time.                   *)
(***************************************************************************)

\* The pack voltage, two values: 400 and 4276.
MqttPackFrames ==
    { Frame(\H444, <<\H90, 1, 0, 0, 0, 0, 0, 0>>),
      Frame(\H444, <<\HB4, \H10, 0, 0, 0, 0, 0, 0>>) }

NextMqtt ==
    \/ Ev_byd_can_recv(MqttPackFrames)
    \/ Ev_batgw_mqtt_to_reconnect({NULL, "req"})
    \/ Ev_batgw_mqtt_addrinfo({0, 4}, ConnectAnswers, ConnectedFailures)
    \/ Ev_batgw_mqtt_connected_ev
    \/ Ev_batgw_mqtt_rd(ReadAnswers)
    \/ Ev_batgw_mqtt_wr
    \/ Ev_batgw_mqtt_want_timeout
    \/ Ev_batgw_mqtt_to
    \/ Ev_batgw_mqtt_teleperiod
    \/ Ev_mqtt_publish_rv
    \/ SweepTick

SpecMqtt == InitSweep /\ [][NextMqtt]_vars

\* The reconnect timer, once pending, does fire.
SpecMqttLive == SpecMqtt /\ WF_vars(Ev_batgw_mqtt_to_reconnect({NULL, "req"}))

\* The messages of out that are KV telemetry.
KvMessages(out) == {i \in 1 .. Len(out) : out[i].scope # ""}

IsOnline(msg) ==
    /\ msg.topic = "battery-gateway/LWT"
    /\ msg.payload = <<"O", "n", "l", "i", "n", "e">>
    /\ msg.retain = 1

\* C23: in every broker session the retained "Online" on <topic>/LWT is the
\* first message published, and KV telemetry is published only while the
\* running flag is set: not before the on-connect publish of the session
\* succeeded, not after the session was disconnected.  The flag is set
\* only inside a session, a new session starts with the flag clear, and a
\* callback that publishes with the flag clear publishes "Online" first and
\* nothing else unless that publish succeeded.
C23_OnlineFirst ==
    [][ /\ ~bgm.conn => mqtt_running = 0
        /\ (~bgm.conn /\ bgm'.conn) => (mqtt_running' = 0 /\ pub' = <<>>)
        /\ (pub' # <<>> /\ mqtt_running = 0) =>
              /\ IsOnline(pub'[1])
              /\ KvMessages(pub') # {} => (pub'[1].rv = 0 /\ mqtt_running' = 1)
              /\ pub'[1].rv = -1 => (Len(pub') = 1 /\ mqtt_running' = 0)
        /\ (mqtt_running = 0 /\ mqtt_running' = 1) => (pub' # <<>> /\ pub'[1].rv = 0)
        /\ (pub' # <<>> /\ mqtt_running = 1) => KvMessages(pub') = 1 .. Len(pub')
      ]_vars

\* A session has just been opened: "Online" went out first, retained, and
\* the sweep's pack voltage after it.
C23_Witness ==
    /\ ret.fn = "batgw_mqtt_rd"
    /\ ret.arg = "CONNACK"
    /\ mqtt_running = 1
    /\ Len(pub) >= 2
    /\ IsOnline(pub[1])
    /\ pub[1].rv = 0
    /\ pub[2].key = "BYD_KV_VOLTAGE"

\* A callback has just called batgw_mqtt_disconnect: the broker closed the
\* session, or "Online" could not be published.
Disconnects ==
    /\ ret'.fn = "batgw_mqtt_rd"
    /\ \/ ret'.arg = "0"
       \/ ret'.arg = "CONNACK" /\ bgm.publish_rv = -1

TornDown(b) == b.ev_rd = "none" /\ b.ev_wr = "none" /\ b.ev_to = "none"

\* C24: after every broker disconnect the running flag is clear, the
\* teleperiod timer and the session's read, write and timeout events are
\* not registered and the reconnect timer is pending; so the teleperiod
\* timer is never pending, and no sweep runs, while the flag is clear,
\* and after a disconnect batgw_mqtt_to_reconnect eventually starts a new
\* resolve attempt.
C24_Disconnect ==
    /\ [][ /\ Disconnects => /\ mqtt_running' = 0
                             /\ ~bgm'.ev_to_teleperiod
                             /\ TornDown(bgm')
                             /\ bgm'.ev_to_reconnect
           /\ bgm.ev_to_teleperiod => mqtt_running = 1
           /\ Ev_batgw_mqtt_teleperiod => mqtt_running = 1
         ]_vars
    /\ (ret.fn = "batgw_mqtt_rd" /\ mqtt_running = 0 /\ bgm.ev_to_reconnect)
          ~> (ret.fn = "batgw_mqtt_to_reconnect")

\* The broker has just closed a running session: it is torn down and the
\* reconnect timer is pending.
C24_Witness ==
    /\ ret.fn = "batgw_mqtt_rd"
    /\ ret.arg = "0"
    /\ mqtt_running = 0
    /\ bgm.ev_to_reconnect
    /\ ~bgm.ev_to_teleperiod
    /\ TornDown(bgm)
    /\ bsc.kvs["BYD_KV_VOLTAGE"].kv_updated = SweepStart

\* A callback of the session has just met a broker failure: the resolver
\* could not be asked or answered with an error, no resolved address could
\* be connected, the session could not be set up, or the broker socket
\* failed hard on a read or a write.
BrokerFailure ==
    \/ ret'.fn = "batgw_mqtt_to_reconnect" /\ ret'.arg = NULL
    \/ ret'.fn = "batgw_mqtt_addrinfo" /\ ret'.arg # 0
    \/ ret'.fn \in {"batgw_mqtt_addrinfo", "batgw_mqtt_connected_ev"}
         /\ bgm'.resn = 0 /\ ~bgm'.conn /\ bgm'.ev_wr # "connecting" /\ ~aborted'
    \/ ret'.fn = "batgw_mqtt_rd" /\ ret'.arg = "ECONNRESET"
    \/ ret'.fn = "batgw_mqtt_wr" /\ ret'.arg = "EPIPE"

\* C25: every broker failure (resolve, connect on every address, a hard
\* error writing to or reading from the broker socket) leaves the session
\* torn down and the reconnect timer pending, with the process running.
C25_BrokerFailure ==
    [][ BrokerFailure => /\ ~aborted'
                         /\ mqtt_running' = 0
                         /\ TornDown(bgm')
                         /\ bgm'.ev_to_reconnect
      ]_vars

\* C26: when mqtt_publish fails for a KV message, from batgw_kv_update or
\* from a teleperiod sweep, the session is disconnected (running flag
\* clear) and the reconnect timer pending when the callback returns.
C26_KvPublishFailure ==
    [][ (\E i \in KvMessages(pub') : pub'[i].rv = -1)
          => (mqtt_running' = 0 /\ bgm'.ev_to_reconnect)
      ]_vars

-----------------------------------------------------------------------------
\* C27: in the receive callback of a CAN driver a read that fails with an
\* error other than would-block or interrupted aborts the process; a read
\* that fails with would-block or interrupted is ignored and leaves the
\* pack, inverter and driver state as it was.  (A hard error is the one the
\* callback logs.)
C27_RecvFailure ==
    [][ (Ev_byd_can_recv_fail \/ Ev_byd_can_i_recv_fail) =>
          IF logged' # <<>> THEN aborted'
          ELSE /\ ~aborted'
               /\ UNCHANGED <<bs, is, bg_unsafe_reason, isc, bsc, tmo>>
      ]_vars

-----------------------------------------------------------------------------
\* C28: on every 8-byte 0x444 frame, with x the le16 at offset 0, the pack
\* voltage becomes known as x dV (the accessor returns present with x), the
\* battery voltage key takes the value x, and its payload has one
\* fractional digit (4276 reads "427.6").
C28_Voltage444 ==
    [][ \A frame \in MqttPackFrames :
          (~aborted /\ frame.can_id = \H444 /\ BydRecvStep(frame)) =>
            LET x == can_letoh16(frame, 0)
                kv == bsc'.kvs["BYD_KV_VOLTAGE"]
            IN  /\ batgw_i_get_voltage_dv(bs') = Present(x)
                /\ kv.kv_v = x
                /\ batgw_kv_payload(kv) = batgw_kv_payload([kv EXCEPT !.kv_precision = 1])
      ]_vars

-----------------------------------------------------------------------------
\* C29: on every 0x7EF response whose PID (be16 at offset 2) is 0x0008 the
\* pack voltage in dV is set to the le16 at offset 4 as it is, and that
\* value is the divisor of the envelope computation that follows.
C29_PidVoltage ==
    [][ \A frame \in QuietPackFrames :
          ( /\ ~aborted
            /\ frame.can_id = \H7EF
            /\ can_betoh16(frame, 2) = \H0008
            /\ BydRecvStep(frame) ) =>
            LET x == can_letoh16(frame, 4) IN
            /\ batgw_i_get_voltage_dv(bs') = Present(x)
            /\ \A w \in {3000, 5000} :
                 batgw_get_safety_limited_da(bs', w, bconf.charge_w)
                   = (Min(w, bconf.charge_w) * 100) \div x
      ]_vars

(***************************************************************************)
(* SpecPoll: the battery driver's PID poll.  byd_b_dispatch makes the      *)
(* first call of byd_can_poll; every later call is the 200 ms timer the    *)
(* call before it armed.  send() on the CAN socket may fail at any call.   *)
(***************************************************************************)

BYD_PID_BATTERY_SOC == \H0005
BYD_PID_BATTERY_VOLTAGE == \H0008
BYD_PID_BATTERY_CURRENT == \H0009
BYD_PID_CELL_TEMP_MIN == \H002F
BYD_PID_CELL_TEMP_MAX == \H0031
BYD_PID_CELL_TEMP_AVG == \H0032
BYD_PID_CELL_MV_MIN == \H002B
BYD_PID_CELL_MV_MAX == \H002D
BYD_PID_MAX_CHARGE_POWER == \H000A
BYD_PID_MAX_DISCHARGE_POWER == \H000E
BYD_PID_CHARGE_TIMES == \H000B
BYD_PID_TOTAL_CHARGED_AH == \H000F
BYD_PID_TOTAL_DISCHARGED_AH == \H0010
BYD_PID_TOTAL_CHARGED_KWH == \H0011
BYD_PID_TOTAL_DISCHARGED_KWH == \H0012

\* byd_poll_pids[]; the C index i is element i + 1.
byd_poll_pids ==
    << BYD_PID_BATTERY_SOC, BYD_PID_BATTERY_VOLTAGE, BYD_PID_BATTERY_CURRENT,
       BYD_PID_CELL_TEMP_MIN, BYD_PID_CELL_TEMP_MAX, BYD_PID_CELL_TEMP_AVG,
       BYD_PID_CELL_MV_MIN, BYD_PID_CELL_MV_MAX,
       BYD_PID_MAX_CHARGE_POWER, BYD_PID_MAX_DISCHARGE_POWER,
       BYD_PID_CHARGE_TIMES,
       BYD_PID_TOTAL_CHARGED_AH, BYD_PID_TOTAL_DISCHARGED_AH,
       BYD_PID_TOTAL_CHARGED_KWH, BYD_PID_TOTAL_DISCHARGED_KWH >>

\* byd_can_poll returning on a failed send() before it has stored the index
\* and armed the timer.
byd_can_poll_stall(g, rv) ==
    LET idx == g.bsc.can_poll_idx
        pid == byd_poll_pids[idx + 1]
        g1 == send(g, "battery",
                   Frame(\H7E7, <<\H03, \H22, pid \div 256, pid % 256, 0, 0, 0, 0>>))
    IN  IF rv = -1
        THEN [g1 EXCEPT !.logged = Append(@, "byd battery can send")]
        ELSE [g1 EXCEPT !.bsc.can_poll_idx = IF idx + 1 >= Len(byd_poll_pids)
                                              THEN 0 ELSE idx + 1,
                        !.bsc.can_poll = "added"]

\* byd_can_poll(nil, events, bg); rv is what send() returns.
byd_can_poll(g, rv) ==
    LET idx == g.bsc.can_poll_idx
        pid == byd_poll_pids[idx + 1]
        g1 == [g EXCEPT !.bsc.can_poll_idx = IF idx + 1 >= Len(byd_poll_pids)
                                             THEN 0 ELSE idx + 1,
                        !.bsc.can_poll = "added"]
        g2 == send(g1, "battery",
                   Frame(\H7E7, <<\H03, \H22, pid \div 256, pid % 256, 0, 0, 0, 0>>))
    IN  IF rv = -1
        THEN [g2 EXCEPT !.logged = Append(@, "byd battery can send")]
        ELSE g2

\* The calls of byd_can_poll followed.
MaxPolls == 60

\* One call of byd_can_poll: the first from byd_b_dispatch, the others from
\* the pending timer.  ret.arg counts the calls made before this one.
Ev_byd_can_poll(rvs) ==
    /\ ret.fn = "none" \/ (ret.fn = "byd_can_poll" /\ bsc.can_poll = "added")
    /\ ret.fn = "byd_can_poll" => ret.arg + 1 < MaxPolls
    /\ \E rv \in rvs :
         LET g == byd_can_poll(Cur, rv) IN
         /\ bsc' = g.bsc
         /\ sent' = g.sent
         /\ logged' = g.logged
         /\ ret' = [fn |-> "byd_can_poll",
                    arg |-> IF ret.fn = "none" THEN 0 ELSE ret.arg + 1,
                    val |-> rv]
    /\ UNCHANGED <<v_safe, v_unsafe, bconf, bs, is, bg_unsafe_reason, isc, tmo,
                   now, mqtt_running, bgm, pub, quiet, aborted>>

NextPoll == Ev_byd_can_poll({8, -1})

SpecPoll == InitSweep /\ [][NextPoll]_vars

\* C30: the n-th call of byd_can_poll (n >= 0) hands one frame to send():
\* 0x7E7 with the bytes 03 22 PID_hi PID_lo 00 00 00 00, where PID is entry
\* n mod 15 of the list 0005 0008 0009 002F 0031 0032 002B 002D 000A 000E
\* 000B 000F 0010 0011 0012, whose 15 entries differ, so that 15 calls in a
\* row ask for every PID once; the index advances and the timer is armed
\* again at every call, whether send() fails or not.
C30_PollRoundRobin ==
    [][ (ret'.fn = "byd_can_poll" /\ ret' # ret) =>
          LET list == << \H0005, \H0008, \H0009, \H002F, \H0031, \H0032, \H002B,
                         \H002D, \H000A, \H000E, \H000B, \H000F, \H0010, \H0011,
                         \H0012 >>
              n == ret'.arg
              PID == list[(n % 15) + 1]
          IN  /\ Cardinality({ list[i] : i \in 1..15 }) = 15
              /\ sent' = << [can |-> "battery",
                             frame |-> Frame(\H7E7, <<3, \H22, PID \div 256,
                                                      PID % 256, 0, 0, 0, 0>>)] >>
              /\ bsc'.can_poll_idx = (n + 1) % 15
              /\ bsc'.can_poll = "added"
      ]_vars

\* The 17th call, its send() failing, the call before it having failed too.
C30_Witness ==
    /\ ret.fn = "byd_can_poll"
    /\ ret.arg = 16
    /\ ret.val = -1
    /\ bsc.can_poll_idx = 2
    /\ logged = <<"byd battery can send">>

(***************************************************************************)
(* The battery driver's interval emitters.  An event of the softc is "new" *)
(* once created, "added" while pending and "done" once its callback has    *)
(* run without adding it again; evtimer_pending holds of "added" only.     *)
(***************************************************************************)

\* byd_can_50ms taking 1 off bytes 6 and 7.
byd_can_50ms_dec1(g, rv) ==
    LET pending == g.bsc.can_50ms_change = "added"
        b6 == (g.bsc.can_50ms_6 - 1) % 256
        b7 == (g.bsc.can_50ms_7 - 1) % 256
        g1 == [g EXCEPT !.bsc.can_50ms = "added",
                        !.bsc.can_50ms_6 = b6, !.bsc.can_50ms_7 = b7]
        data == IF pending
                THEN <<\HA0, \H28, \H02, \HA0, \H0C, \H71, b6, b7>>
                ELSE <<\HA0, \H28, \H00, \H22, \H0C, \H31, b6, b7>>
        g2 == send(g1, "battery", Frame(\H12D, data))
    IN  IF rv = -1
        THEN [g2 EXCEPT !.logged = Append(@, "byd battery 50ms send")]
        ELSE g2

\* byd_can_50ms(nil, events, bg); rv is what send() returns.
byd_can_50ms(g, rv) ==
    LET pending == g.bsc.can_50ms_change = "added"
        b6 == (g.bsc.can_50ms_6 - BYD_50MS_DECR) % 256
        b7 == (g.bsc.can_50ms_7 - BYD_50MS_DECR) % 256
        g1 == [g EXCEPT !.bsc.can_50ms = "added",
                        !.bsc.can_50ms_6 = b6, !.bsc.can_50ms_7 = b7]
        data == IF pending
                THEN <<\HA0, \H28, \H02, \HA0, \H0C, \H71, b6, b7>>
                ELSE <<\HA0, \H28, \H00, \H22, \H0C, \H31, b6, b7>>
        g2 == send(g1, "battery", Frame(\H12D, data))
    IN  IF rv = -1
        THEN [g2 EXCEPT !.logged = Append(@, "byd battery 50ms send")]
        ELSE g2

\* byd_can_50ms_change: the callback does nothing; the timer is no longer
\* pending once it has run.
byd_can_50ms_change(g) == [g EXCEPT !.bsc.can_50ms_change = "done"]

RECURSIVE SumBytes(_, _)
\* data[0] + ... + data[n - 1]
SumBytes(data, n) == IF n = 0 THEN 0 ELSE data[n] + SumBytes(data, n - 1)

\* byd_can_100ms with the voltage taken from the key whatever the contactor.
byd_can_100ms_nocontactor(g, rv) ==
    LET kvv == batgw_kv_get(g.bsc.kvs["BYD_KV_VOLTAGE"])
        v == IF kvv <= 12 THEN 12 ELSE kvv
        f0 == Frame(\H441, <<\H98, \H3A, \H88, \H13, 0, 0, \HFF, 0>>)
        f1 == can_htole16(f0, 4, v)
        f2 == [f1 EXCEPT !.data[8] = 255 - (SumBytes(f1.data, 7) % 256)]
        g2 == send([g EXCEPT !.bsc.can_100ms = "added"], "battery", f2)
    IN  IF rv = -1
        THEN [g2 EXCEPT !.logged = Append(@, "byd battery 100ms send")]
        ELSE g2

\* byd_can_100ms(nil, events, bg); rv is what send() returns.  ~csum kept
\* in a byte is 255 - csum % 256.
byd_can_100ms(g, rv) ==
    LET kvv == batgw_kv_get(g.bsc.kvs["BYD_KV_VOLTAGE"])
        v == IF kvv <= 12 \/ g.is.is_contactor = 0 THEN 12 ELSE kvv
        f0 == Frame(\H441, <<\H98, \H3A, \H88, \H13, 0, 0, \HFF, 0>>)
        f1 == can_htole16(f0, 4, v)
        f2 == [f1 EXCEPT !.data[8] = 255 - (SumBytes(f1.data, 7) % 256)]
        g2 == send([g EXCEPT !.bsc.can_100ms = "added"], "battery", f2)
    IN  IF rv = -1
        THEN [g2 EXCEPT !.logged = Append(@, "byd battery 100ms send")]
        ELSE g2

\* byd_b_dispatch as a callback: the ratings, then the first run of each
\* emitter, the change timer being added after the first 50 ms message.
\* rv holds what the three send() calls return.
byd_b_dispatch_ev(g, conf, rv) ==
    LET g0 == [g EXCEPT !.bs = byd_b_dispatch(@, conf)]
        g1 == byd_can_50ms(g0, rv[1])
        g2 == [g1 EXCEPT !.bsc.can_50ms_change = "added"]
        g3 == byd_can_100ms(g2, rv[2])
    IN  byd_can_poll(g3, rv[3])

(***************************************************************************)
(* SpecNonce: byd_b_dispatch, then the 50 ms emitter and the change timer, *)
(* which may expire between any two runs of the emitter.  ret.arg is the   *)
(* number of 0x12D messages handed to send() so far.                       *)
(***************************************************************************)

\* What send() may return: the size of a frame, or -1.
SendRvs == {8, 0 - 1}

\* The runs of byd_can_50ms followed.
MaxEmits == 40

\* What a callback of the battery driver leaves behind, with ret as given.
EmitStep(g, r) ==
    /\ bs' = g.bs
    /\ is' = g.is
    /\ bsc' = g.bsc
    /\ sent' = g.sent
    /\ logged' = g.logged
    /\ ret' = r
    /\ UNCHANGED <<v_safe, v_unsafe, bconf, bg_unsafe_reason, isc, tmo, now,
                   mqtt_running, bgm, pub, quiet, aborted>>

Ev_byd_b_dispatch ==
    /\ bsc.can_50ms = "new"
    /\ \E r1 \in SendRvs, r2 \in SendRvs, r3 \in SendRvs :
         EmitStep(byd_b_dispatch_ev(Cur, bconf, <<r1, r2, r3>>),
                  [fn |-> "byd_can_50ms", arg |-> 1, val |-> r1])

Ev_byd_can_50ms ==
    /\ bsc.can_50ms = "added"
    /\ ret.fn = "byd_can_50ms"
    /\ ret.arg < MaxEmits
    /\ \E rv \in SendRvs :
         EmitStep(byd_can_50ms(Cur, rv),
                  [fn |-> "byd_can_50ms", arg |-> ret.arg + 1, val |-> rv])

Ev_byd_can_50ms_change ==
    /\ bsc.can_50ms_change = "added"
    /\ EmitStep(byd_can_50ms_change(Cur), ret)

InitEmit ==
    /\ v_safe = 1
    /\ v_unsafe = 2
    /\ bconf = batgw_b_config
    /\ bs = batgw_b_state0
    /\ InitRest

NextNonce ==
    \/ Ev_byd_b_dispatch
    \/ Ev_byd_can_50ms
    \/ Ev_byd_can_50ms_change

SpecNonce == InitEmit /\ [][NextNonce]_vars

\* The 0x12D messages among the frames handed to send() by the last callback.
Sent12D(out) == SelectSeq(out, LAMBDA m : m.frame.can_id = \H12D)

\* C31: every 0x12D message sent before the change timer armed at dispatch
\* expires carries 02 A0 71 in bytes 2, 3 and 5, every message sent after
\* the expiry carries 00 22 31, and once a message with 00 22 31 has been
\* sent no later message carries 02 A0 71.
C31_PatternSwitch ==
    [][ \A i \in 1..Len(Sent12D(sent')) :
          LET f == Sent12D(sent')[i].frame
              first == <<Byte(f, 2), Byte(f, 3), Byte(f, 5)>> = <<\H02, \HA0, \H71>>
              second == <<Byte(f, 2), Byte(f, 3), Byte(f, 5)>> = <<\H00, \H22, \H31>>
              was == IF Len(Sent12D(sent)) = 0 THEN <<>>
                     ELSE LET p == Sent12D(sent)[1].frame
                          IN  <<Byte(p, 2), Byte(p, 3), Byte(p, 5)>>
          IN  /\ sent' # sent \/ ret' # ret
              => /\ bsc'.can_50ms_change # "done" => first
                 /\ bsc'.can_50ms_change = "done" => second
                 /\ was = <<\H00, \H22, \H31>> => second
      ]_vars

\* C32: the k-th 0x12D message (k >= 1) carries (0xBF - 0x10 * k) mod 256 in
\* byte 6 and (0x59 - 0x10 * k) mod 256 in byte 7; the low nibble of the
\* byte 6 counter is 0xF and of the byte 7 counter 0x9 in every state; the
\* bytes of message k are those of message k mod 16 (period 16).
C32_Nonce ==
    [][ /\ bsc.can_50ms_6 % 16 = \HF /\ bsc.can_50ms_7 % 16 = \H9
        /\ bsc'.can_50ms_6 % 16 = \HF /\ bsc'.can_50ms_7 % 16 = \H9
        /\ (ret'.fn = "byd_can_50ms" /\ ret'.arg # ret.arg) =>
             LET k == ret'.arg
                 f == Sent12D(sent')[1].frame
             IN  /\ Len(Sent12D(sent')) = 1
                 /\ Byte(f, 6) = (\HBF - \H10 * k) % 256
                 /\ Byte(f, 7) = (\H59 - \H10 * k) % 256
                 /\ Byte(f, 6) = (\HBF - \H10 * (k % 16)) % 256
                 /\ Byte(f, 7) = (\H59 - \H10 * (k % 16)) % 256
      ]_vars

\* The 22nd message, sent after the change timer has expired: both counters
\* have wrapped (0xBF - 0x160 = 0x5F, 0x59 - 0x160 = 0xF9 modulo 256).
C32_Witness ==
    /\ ret.fn = "byd_can_50ms"
    /\ ret.arg = 22
    /\ bsc.can_50ms_change = "done"
    /\ bsc.can_50ms_6 = \H5F
    /\ bsc.can_50ms_7 = \HF9

(***************************************************************************)
(* SpecEmit: byd_b_dispatch, then the 100 ms emitter between frames from   *)
(* the pack, which move the voltage key, and frames from the inverter,     *)
(* which open and close the contactor.                                     *)
(***************************************************************************)

\* 0x444 frames with the voltages 5, 12, 13, 400 and 4276, a PID 0x0008
\* answer that makes the pack voltage known, and a frame that only shows
\* the pack is alive.
EmitPackFrames ==
    { Frame(\H444, <<lo, hi, 0, 0, 0, 0, 0, 0>>) :
        <<lo, hi>> \in { <<5, 0>>, <<12, 0>>, <<13, 0>>, <<\H90, 1>>, <<\HB4, \H10>> } }
    \cup { Pid(\H0008, \H90, 1), Frame(\H123, Zeros) }

Ev_byd_can_100ms ==
    /\ bsc.can_100ms = "added"
    /\ \E rv \in SendRvs : EmitStep(byd_can_100ms(Cur, rv), NoRet)

NextEmit ==
    \/ Ev_byd_b_dispatch
    \/ Ev_byd_can_100ms
    \/ bsc.can_100ms = "added" /\ Ev_byd_can_recv(EmitPackFrames)
    \/ bsc.can_100ms = "added" /\ Ev_byd_can_i_recv(ContactorFrames)

SpecEmit == InitEmit /\ [][NextEmit]_vars

\* C33: every 0x441 message carries in bytes 4-5, little-endian, 12 if the
\* contactor flag is open or the battery voltage key was never set or is at
\* most 12, and the value of the key otherwise; its byte 7 is
\* 255 - (sum of bytes 0..6) mod 256, so that the 8 bytes add up to 255
\* modulo 256.
C33_Msg441 ==
    [][ \A i \in 1..Len(sent') :
          LET f == sent'[i].frame
              kv == bsc'.kvs["BYD_KV_VOLTAGE"]
          IN  f.can_id = \H441 =>
                /\ can_letoh16(f, 4) =
                     IF is'.is_contactor = 0 \/ kv.kv_v = INT_MIN \/ kv.kv_v <= 12
                     THEN 12 ELSE kv.kv_v
                /\ Byte(f, 7) = 255 - ((Byte(f, 0) + Byte(f, 1) + Byte(f, 2) + Byte(f, 3)
                                        + Byte(f, 4) + Byte(f, 5) + Byte(f, 6)) % 256)
                /\ (Byte(f, 0) + Byte(f, 1) + Byte(f, 2) + Byte(f, 3) + Byte(f, 4)
                    + Byte(f, 5) + Byte(f, 6) + Byte(f, 7)) % 256 = 255
      ]_vars

\* A 0x441 message carrying 4276 (B4 10): the contactor is closed and the
\* key holds 4276.
C33_Witness ==
    /\ is.is_contactor = 1
    /\ bsc.kvs["BYD_KV_VOLTAGE"].kv_v = 4276
    /\ \E i \in 1..Len(sent) :
         /\ sent[i].frame.can_id = \H441
         /\ Byte(sent[i].frame, 4) = \HB4
         /\ Byte(sent[i].frame, 5) = \H10

\* C34: over any sequence of safety evaluations a warning is written exactly
\* when the verdict is unsafe and its reason differs from the reason of the
\* unsafe verdict logged last (none at first): the reason kept is the one
\* logged last, whatever happens in between; an unsafe verdict with that
\* reason writes nothing, one with another reason writes that reason, and a
\* safe verdict writes nothing.
C34_ReasonLogging ==
    [][ LET reason == batgw_safety_reason(bs, bconf)
            warned == Call_get_safety /\ logged' # <<>>
        IN  /\ bg_unsafe_reason' = IF warned THEN logged'[1] ELSE bg_unsafe_reason
            /\ Call_get_safety =>
                 /\ logged' # <<>> <=> (reason # SAFE /\ reason # bg_unsafe_reason)
                 /\ logged' # <<>> => logged' = <<reason>>
                 /\ ret'.val = IF reason = SAFE THEN v_safe ELSE v_unsafe
      ]_vars

\* An unsafe verdict that wrote nothing: the pack has stopped, as it was
\* when the last warning was written, and has reported both temperatures
\* and both cell voltages in between.
C34_Witness ==
    /\ ret.fn = "batgw_i_get_safety"
    /\ ret.val = v_unsafe
    /\ logged = <<>>
    /\ bg_unsafe_reason = "battery is not running"
    /\ bs.bs_running = 0
    /\ ISSET(bs.bs_valid, BATGW_B_VALID_MAX_TEMP)
    /\ bs.bs_max_cell_voltage_mv # 0

\* C35: a teleperiod sweep changes no key: the value and the time of the
\* last publish of every key are after the sweep what they were before it.
\* The time of the last publish of a key moves only in a step that is no
\* sweep, and then to the clock's reading, so the 10 s of a later
\* batgw_kv_update are counted from the last update that published.
C35_SweepKeepsKeys ==
    [][ LET sweep == \/ Ev_batgw_mqtt_teleperiod
                     \/ (Ev_batgw_mqtt_rd({"CONNACK"}) /\ mqtt_running' = 1)
        IN  /\ sweep => bsc' = bsc /\ isc' = isc
            /\ \A k \in DOMAIN bsc.kvs :
                 bsc'.kvs[k].kv_updated # bsc.kvs[k].kv_updated
                   => ~sweep /\ bsc'.kvs[k].kv_updated = now
            /\ \A k \in DOMAIN isc.kvs :
                 isc'.kvs[k].kv_updated # isc.kvs[k].kv_updated
                   => ~sweep /\ isc'.kvs[k].kv_updated = now
      ]_vars

\* A sweep has published the pack voltage 10 s or more after the update
\* that published it last.
C35_Witness ==
    /\ mqtt_running = 1
    /\ bsc.kvs["BYD_KV_VOLTAGE"].kv_v # INT_MIN
    /\ bsc.kvs["BYD_KV_VOLTAGE"].kv_updated + 10 <= now
    /\ \E i \in 1 .. Len(pub) :
          pub[i].key = "BYD_KV_VOLTAGE" /\ pub[i].v = bsc.kvs["BYD_KV_VOLTAGE"].kv_v
    /\ \E i \in 1 .. Len(pub) : pub[i].key = "BYD_CAN_KV_RECV_VOLTAGE"

\* C36: validity is monotone.  No step clears a validity bit; a reported
\* temperature or cell-voltage extreme changes only when a PID answer
\* reports it anew; the watchdog's expiry clears the running flag and
\* nothing else of the pack state; so the first broadcast frame after a
\* silence makes the verdict safe again when the temperatures and cell
\* voltages reported before the silence pass the checks.
C36_ValidityMonotone ==
    [][ /\ bs.bs_valid \subseteq bs'.bs_valid
        /\ ( \/ bs'.bs_min_temp_dc # bs.bs_min_temp_dc
             \/ bs'.bs_max_temp_dc # bs.bs_max_temp_dc
             \/ bs'.bs_min_cell_voltage_mv # bs.bs_min_cell_voltage_mv
             \/ bs'.bs_max_cell_voltage_mv # bs.bs_max_cell_voltage_mv )
           => \E frame \in PackFrames : frame.can_id = \H7EF /\ BydRecvStep(frame)
        /\ (Expired("byd_can_wdog") /\ Ev_byd_can_wdog)
           => bs' = [bs EXCEPT !.bs_running = 0]
        /\ \A frame \in PackFrames :
             ( /\ frame.can_id \in BydBroadcastIds
               /\ BydRecvStep(frame)
               /\ bs.bs_running = 0
               /\ batgw_safety_reason(batgw_b_set_running(bs), bconf) = SAFE )
             => batgw_safety_reason(bs', bconf) = SAFE
      ]_vars

\* The pack has been silent for 10 s, the watchdog has stopped it, and what
\* it reported before would pass every check.
C36_Witness ==
    /\ bs.bs_running = 0
    /\ quiet >= 10
    /\ ~evtimer_pending(tmo, "byd_can_wdog")
    /\ bs.bs_valid # {}
    /\ batgw_safety_reason(batgw_b_set_running(bs), bconf) = SAFE

(***************************************************************************)
(* SpecWire: the 2 s emitter of the inverter driver over pack states with  *)
(* a pack voltage of 1 V and of 400 V, under configured power limits of    *)
(* 4000 W and of 7000 W.                                                   *)
(***************************************************************************)

\* The configured limits: "charge" and "discharge" of the battery section.
WireLimits == {4000, 7000}

\* A pack that becomes safe, reports 1 V or 400 V (le16 1 or 400 of PID
\* 0x0008) and allows 10000 W either way.
WireFrames ==
    { Frame(\H444, <<\H90, 1, 0, 0, 0, 0, 0, 0>>),
      Pid(\H002F, 65, 0), Pid(\H0031, 70, 0),
      Pid(\H002B, \HB8, \H0B), Pid(\H002D, \HC2, \H0B),
      Pid(\H0008, 1, 0), Pid(\H0008, \H90, 1),
      Pid(\H000A, 100, 0), Pid(\H000E, 100, 0) }

InitWire ==
    /\ v_safe = 1
    /\ v_unsafe = 2
    /\ bconf \in { [batgw_b_config EXCEPT !.charge_w = c, !.discharge_w = d] :
                     c \in WireLimits, d \in WireLimits }
    /\ bs = byd_b_dispatch(batgw_b_state0, bconf)
    /\ InitRest

NextWire ==
    \/ Ev_byd_can_recv(WireFrames)
    \/ Ev_byd_can_i_recv(HelloFrames)
    \/ Ev_byd_can_i_2s

SpecWire == InitWire /\ [][NextWire]_vars

\* C37: the 16-bit fields at offsets 4 and 6 of a 0x110 frame are the
\* envelopes batgw_i_get_discharge_da and batgw_i_get_charge_da return for
\* the pack state: for every pack state, a very small pack voltage
\* included, the envelope is at most 65535 and the limit in W times 100
\* fits 32 bits.
C37_EnvelopeOnWire ==
    [][ \A i \in 1..Len(sent') :
          LET f == sent'[i].frame
              token == IF batgw_safety_reason(bs, bconf) = SAFE THEN v_safe ELSE v_unsafe
              dda == batgw_i_get_discharge_da(bs, bconf, token, v_safe, v_unsafe).rv
              cda == batgw_i_get_charge_da(bs, bconf, token, v_safe, v_unsafe).rv
          IN  (f.can_id = \H110 /\ Ev_byd_can_i_2s) =>
                /\ can_betoh16(f, 4) = dda
                /\ can_betoh16(f, 6) = cda
                /\ dda <= 65535
                /\ cda <= 65535
                /\ Min(bs.bs_max_discharge_w, bconf.discharge_w) <= 42949672
                /\ Min(bs.bs_max_charge_w, bconf.charge_w) <= 42949672
      ]_vars

\* The attempts and sessions session record b holds: a resolver request in
\* flight, a connect() in progress, a connection with its events.
Attempts(b) ==
    (IF b.req THEN 1 ELSE 0) + (IF b.ev_wr = "connecting" THEN 1 ELSE 0)
    + (IF b.conn THEN 1 ELSE 0)

\* C38: at any time at most one connection attempt or session exists: the
\* reconnect timer is never pending while a resolve, a connect or an open
\* session is in progress; a resolve starts only from the reconnect timer
\* (or at init); and batgw_mqtt_disconnect only runs on a session whose
\* connection and events exist, which it then frees.
C38_OneSession ==
    [][ /\ Attempts(bgm) <= 1 /\ Attempts(bgm') <= 1
        /\ bgm.ev_to_reconnect => Attempts(bgm) = 0 /\ mqtt_running = 0
        /\ bgm'.ev_to_reconnect => Attempts(bgm') = 0 /\ mqtt_running' = 0
        /\ mqtt_running' = 1 => bgm'.conn
        /\ (bgm'.req /\ ~bgm.req)
             => ret'.fn = "batgw_mqtt_to_reconnect" /\ bgm.ev_to_reconnect
        /\ Disconnects
             => /\ bgm.conn /\ bgm.ev_rd = "added" /\ bgm.ev_wr # "none" /\ bgm.ev_to # "none"
                /\ ~bgm'.conn /\ TornDown(bgm')
      ]_vars

\* The reconnect timer has fired after a failed attempt and the new resolve
\* is in flight, the only attempt there is.
C38_Witness ==
    /\ ret.fn = "batgw_mqtt_to_reconnect"
    /\ ret.arg = "req"
    /\ bgm.req
    /\ ~bgm.ev_to_reconnect
    /\ Attempts(bgm) = 1
    /\ bsc.kvs["BYD_KV_VOLTAGE"].kv_v # INT_MIN

\* C39: the key the inverter driver updates with the discharge envelope is
\* published as "max-discharge", type current, precision 1, and the key it
\* updates with the charge envelope as "max-charge", type current,
\* precision 1; the two never share a topic nor use the topic of another
\* type.
C39_EnvelopeKeys ==
    [][ (Ev_byd_can_i_2s /\ sent' # <<>>) =>
          LET d == isc'.kvs["BYD_CAN_KV_DISCHARGE_CURRENT"]
              c == isc'.kvs["BYD_CAN_KV_CHARGE_CURRENT"]
          IN  /\ d.kv_key = "max-discharge" /\ d.kv_type = "KV_T_CURRENT"
              /\ d.kv_precision = 1
              /\ c.kv_key = "max-charge" /\ c.kv_type = "KV_T_CURRENT"
              /\ c.kv_precision = 1
              /\ batgw_kv_topic("inverter", d)
                   = BATGW_MQTT_TOPIC \o "/inverter/max-discharge/current"
              /\ batgw_kv_topic("inverter", c)
                   = BATGW_MQTT_TOPIC \o "/inverter/max-charge/current"
      ]_vars

(***************************************************************************)
(* SpecIdx: the tables the battery drivers index.  The battery is the BYD  *)
(* pack or the MG4 pack; the softc is that of the driver attached.  The    *)
(* BYD bus delivers pack-temperature and cell-voltage frames with every    *)
(* value of byte 0 until one of them has written a slot; the poll timer    *)
(* and the MG4 contactor timer fire at any time.                           *)
(***************************************************************************)

\* b_mg4.c contactor_seq[], each entry as the 8 bytes can_htobe64 writes.
contactor_seq ==
    <<
       <<\H81, \H00, \H45, \H7D, \H7F, \HFE, \HFF, \HFE>>,
       <<\HDC, \H01, \H45, \H7D, \H7F, \HFE, \HFF, \HFE>>,
       <<\HB4, \H02, \H45, \H7D, \H7F, \HFF, \HFF, \HFE>>,
       <<\HE9, \H03, \H45, \H7D, \H7F, \HFF, \HFF, \HFE>>,
       <<\HE8, \H04, \H45, \H7D, \H7F, \HFE, \HFF, \HFE>>,
       <<\HB5, \H05, \H45, \H7D, \H7F, \HFE, \HFF, \HFE>>,
       <<\HDD, \H06, \H45, \H7D, \H7F, \HFF, \HFF, \HFE>>,
       <<\H0F, \H07, \H45, \H7D, \H7F, \HFE, \HFF, \HFE>>,
       <<\H53, \H08, \H45, \H7D, \H7F, \HFE, \HFF, \HFE>>,
       <<\H81, \H09, \H45, \H7D, \H7F, \HFF, \HFF, \HFE>>,
       <<\H66, \H0A, \H45, \H7D, \H7F, \HFF, \HFF, \HFE>>,
       <<\HB4, \H0B, \H45, \H7D, \H7F, \HFE, \HFF, \HFE>>,
       <<\H3A, \H0C, \H45, \H7D, \H7F, \HFE, \HFF, \HFE>>,
       <<\H0F, \H0E, \H45, \H7D, \H7F, \HFF, \HFF, \HFE>>
    >>

\* mg4_attach: the calloc'd softc, as far as mg4_can_contactor uses it.
mg4_attach == [can_contactor_idx |-> 0]

\* mg4_can_contactor(nil, events, bg); rv is what send() returns.
mg4_can_contactor(g, rv) ==
    LET idx == g.bsc.can_contactor_idx
        g1 == send([g EXCEPT !.bsc.can_contactor_idx =
                                IF idx + 1 >= Len(contactor_seq) THEN 0 ELSE idx + 1],
                   "battery", Frame(\H047, contactor_seq[idx + 1]))
    IN  IF rv = -1 THEN [g1 EXCEPT !.logged = Append(@, "mg4 contactor")] ELSE g1

\* The battery driver attached is the BYD one.
IsByd == "kvs" \in DOMAIN bsc

\* 0x43C and 0x43D frames with every byte 0; 70 is 30 degC, B8 0B 3000 mV.
IdxFrames ==
    { Frame(\H43C, <<b0, 70, 70, 70, 70, 70, 70, 0>>) : b0 \in 0 .. 255 }
    \cup { Frame(\H43D, <<b0, \HB8, \H0B, \HB8, \H0B, \HB8, \H0B, 0>>) : b0 \in 0 .. 255 }

InitIdx ==
    /\ v_safe = 1
    /\ v_unsafe = 2
    /\ bconf = batgw_b_config
    /\ bs = batgw_b_state0
    /\ is = batgw_i_state0
    /\ bg_unsafe_reason = NULL
    /\ isc = byd_can_i_attach
    /\ bsc \in {byd_b_attach, mg4_attach}
    /\ tmo = NoTimers
    /\ now = 0
    /\ mqtt_running = 0
    /\ bgm = batgw_mqtt_session(0)
    /\ sent = <<>>
    /\ logged = <<>>
    /\ pub = <<>>
    /\ quiet = 0
    /\ ret = NoRet
    /\ aborted = FALSE

Ev_mg4_can_contactor ==
    /\ ~IsByd
    /\ \E rv \in SendRvs : EmitStep(mg4_can_contactor(Cur, rv), NoRet)

NextIdx ==
    \/ IsByd /\ bsc.pack = <<>> /\ bsc.cell = <<>> /\ Ev_byd_can_recv(IdxFrames)
    \/ IsByd /\ Ev_byd_can_poll(SendRvs)
    \/ Ev_mg4_can_contactor

SpecIdx == InitIdx /\ [][NextIdx]_vars

\* C40: no driver indexes outside its tables, whatever byte 0 of a frame
\* is and however often the timers fire: the slots of pack[] written are
\* below 10, those of cell[] below ncell, the BYD poll index is below 15
\* and the MG4 contactor index below 14.
C40_IndexBounds ==
    IF IsByd
    THEN /\ \A key \in DOMAIN bsc.pack : key >= 0 /\ key < 10
         /\ \A key \in DOMAIN bsc.cell : key >= 0 /\ key < bsc.ncell
         /\ bsc.ncell = bconf.ncells
         /\ bsc.can_poll_idx >= 0 /\ bsc.can_poll_idx < 15
    ELSE bsc.can_contactor_idx >= 0 /\ bsc.can_contactor_idx < 14

\* The last frame that fits: byte 0 = 41 has written cell[123..125], the
\* last slots of the 126 cells, and the poll index has wrapped to 0.
C40_Witness ==
    /\ IsByd
    /\ DOMAIN bsc.cell = {123, 124, 125}
    /\ bsc.can_poll_idx = 0
    /\ bsc.can_poll = "added"

\* The contactor index at its last entry.
C40_WitnessMg4 ==
    /\ ~IsByd
    /\ bsc.can_contactor_idx = 13

====
